---- MODULE Spec2Model ----
(***************************************************************************)
(* Component resolution and unresolved-component diagnostics of the        *)
(* Django Cotton VS Code extension (src/src/extension.ts).                 *)
(*                                                                         *)
(* Strings are sequences of one-character strings, so that the regular     *)
(* expressions and path operations of the source are computed, character   *)
(* by character, the way the source computes them.                         *)
(***************************************************************************)
EXTENDS Integers, Sequences, FiniteSets, Bags, TLC

VARIABLES
    componentName,   \* argument of findComponentFile
    templatePaths,   \* djangoCotton.templatePaths, in configured order
    workspaceOpen,   \* vscode.workspace.workspaceFolders?.[0] is defined
    fsFiles,         \* paths that exist on disk
    fsDenied,        \* existing paths on which fs.promises.access rejects
    callee,          \* which resolver of the source is running
    pc,              \* position of the resolver call
    frame,           \* loop position of the call: base, variation, shape
    probeLog,        \* the access() calls of the current call, with outcome
    result,          \* value the call resolved to
    fsStable,        \* no file changed since the current call started
    earlier,         \* whether the call before the running one found a file,
                     \* in the specification that records it
    kept,            \* files access() accepts since findComponentFile was called
    languageId,      \* document.languageId
    docText,         \* document.getText() of the open document
    runs,            \* updateDiagnostics runs suspended at an await (a bag)
    stored,          \* the diagnosticCollection entry of the document
    history,         \* whether runs overlapped, and what the last set() replaced
    fileContent,     \* content of the component template file
    cursor,          \* offset of the cursor in the document
    reply,           \* what the provider called last handed back
    declaration,     \* the declaration tag as the template's author wrote it
    templateDir,     \* what readdir lists in the template directory, in order
    awaitsRead,      \* collectTemplateFiles awaits the documentation read
    scan,            \* the await provideCompletionItems is suspended at
    completionItems, \* the completionItems array, in push order
    reads,           \* items whose documentation read is in flight
    handed           \* the list provideCompletionItems resolved to

envVars == << templatePaths, workspaceOpen, fsFiles, fsDenied >>

resolverVars ==
    << componentName, callee, pc, frame, probeLog, result, fsStable, earlier, kept >>

diagVars == << languageId, docText, runs, stored, history >>

editVars == << fileContent, cursor, reply, declaration >>

completionVars == << templateDir, awaitsRead, scan, completionItems, reads, handed >>

vars == << envVars, resolverVars, diagVars, editVars, completionVars >>

----------------------------------------------------------------------------
(* Bounds of the model *)

MaxFiles == 2

\* Entries of the template directory
MaxEntries == 2

----------------------------------------------------------------------------
(* Characters and strings *)

NotFound == << >>

\* Component names: plain, dotted, with a hyphen, with an underscore, with
\* both, dotted with a hyphen in each part
Names ==
    { << "a" >>,
      << "a", ".", "b" >>,
      << "a", "-", "b" >>,
      << "a", "_", "b" >>,
      << "a", "-", "b", "_", "c" >>,
      << "a", "-", "b", ".", "c", "-", "d" >> }

WorkspaceRoot == << "/", "w" >>

TemplatesCotton == << "t", "c" >>

OtherTemplates == << "o", "t" >>

Configs == { << >>, << TemplatesCotton >>, << OtherTemplates, TemplatesCotton >> }

DotHtml == << ".", "h", "t", "m", "l" >>

IndexHtml == << "i", "n", "d", "e", "x" >> \o DotHtml

\* String.prototype.replace(/c/g, d) for single characters c, d
ReplaceAll(s, from, to) ==
    [i \in 1..Len(s) |-> IF s[i] = from THEN to ELSE s[i]]

\* path.normalize on the joined path: runs of separators collapse to one.
\* (No "." or ".." segment can occur: every dot of the name became "/".)
RECURSIVE Normalize(_)
Normalize(s) ==
    IF Len(s) <= 1 THEN s
    ELSE IF s[1] = "/" /\ s[2] = "/" THEN Normalize(Tail(s))
    ELSE << s[1] >> \o Normalize(Tail(s))

RECURSIVE JoinRaw(_)
JoinRaw(parts) ==
    IF Len(parts) = 0 THEN << >>
    ELSE IF Len(parts) = 1 THEN parts[1]
    ELSE parts[1] \o << "/" >> \o JoinRaw(Tail(parts))

\* path.join(...parts)
PathJoin(parts) == Normalize(JoinRaw(parts))

----------------------------------------------------------------------------
(* CottonUtils *)

\* Variant of getPathVariations that tries a swapped spelling first
getPathVariationsSwappedFirst(name) ==
    LET tagPath == ReplaceAll(name, ".", "/")
    IN  << ReplaceAll(tagPath, "-", "_"),
           tagPath,
           ReplaceAll(tagPath, "_", "-") >>

\* String.prototype.replace(c, d) without the g flag: the first c only
ReplaceFirst(s, from, to) ==
    [i \in 1..Len(s) |->
        IF s[i] = from /\ \A j \in 1..(i - 1) : s[j] # from THEN to ELSE s[i]]

\* Variant of getPathVariations whose replacements stop at the first match
getPathVariationsFirstOnly(name) ==
    LET tagPath == ReplaceAll(name, ".", "/")
    IN  << tagPath,
           ReplaceFirst(tagPath, "-", "_"),
           ReplaceFirst(tagPath, "_", "-") >>

getPathVariations(name) ==
    LET tagPath == ReplaceAll(name, ".", "/")
    IN  << tagPath,
           ReplaceAll(tagPath, "-", "_"),
           ReplaceAll(tagPath, "_", "-") >>

\* const templatePath = path.join(fsPath, templateBasePath, pathVariation + '.html')
TemplatePath(base, variation) ==
    PathJoin(<< WorkspaceRoot, base, variation \o DotHtml >>)

\* const indexPath = path.join(fsPath, templateBasePath, pathVariation, 'index.html')
IndexPath(base, variation) ==
    PathJoin(<< WorkspaceRoot, base, variation, IndexHtml >>)

\* await fs.promises.access(p) resolves (rather than rejects)
AccessOk(p) == p \in fsFiles /\ p \notin fsDenied

\* The path the call is about to probe
FramePath(f) ==
    LET base == templatePaths[f.bi]
        variation == getPathVariations(f.name)[f.vi]
    IN  IF f.shape = "direct" THEN TemplatePath(base, variation)
        ELSE IndexPath(base, variation)

\* Variant of NextFrame with the two loops exchanged: bases innermost
NextFrameBaseInner(f) ==
    IF f.bi < Len(templatePaths)
    THEN [f EXCEPT !.bi = f.bi + 1, !.shape = "direct"]
    ELSE IF f.vi < Len(getPathVariations(f.name))
    THEN [f EXCEPT !.bi = 1, !.vi = f.vi + 1, !.shape = "direct"]
    ELSE [f EXCEPT !.bi = f.bi + 1, !.vi = 1, !.shape = "direct"]

\* `continue` of the inner loop, and the end of both loops
NextFrame(f) ==
    IF f.vi < Len(getPathVariations(f.name))
    THEN [f EXCEPT !.vi = f.vi + 1, !.shape = "direct"]
    ELSE [f EXCEPT !.bi = f.bi + 1, !.vi = 1, !.shape = "direct"]

IdleFrame == [name |-> << >>, bi |-> 0, vi |-> 0, shape |-> "none"]

FirstFrame(name) == [name |-> name, bi |-> 1, vi |-> 1, shape |-> "direct"]

----------------------------------------------------------------------------
(* Files the environment may create: the spellings of the name under the   *)
(* configured directories.                                                 *)

FsUniverse ==
    UNION { { TemplatePath(templatePaths[b], getPathVariations(componentName)[v]),
              IndexPath(templatePaths[b], getPathVariations(componentName)[v]) } :
            b \in 1..Len(templatePaths), v \in 1..3 }

\* Variant of ProbeOutcome that returns templatePath also for an index hit
ProbeOutcomeWrongPath(f, p, ok) ==
    IF ok
    THEN [pc |-> "done", frame |-> f,
          result |-> TemplatePath(templatePaths[f.bi],
                                  getPathVariations(f.name)[f.vi])]
    ELSE IF f.shape = "direct"
    THEN [pc |-> "probe", frame |-> [f EXCEPT !.shape = "index"], result |-> NotFound]
    ELSE IF NextFrame(f).bi <= Len(templatePaths)
    THEN [pc |-> "probe", frame |-> NextFrame(f), result |-> NotFound]
    ELSE [pc |-> "done", frame |-> NextFrame(f), result |-> NotFound]

\* Variant of ProbeOutcome whose catch rethrows every error but ENOENT
ProbeOutcomeRethrow(f, p, ok) ==
    IF ok THEN [pc |-> "done", frame |-> f, result |-> p]
    ELSE IF p \in fsFiles
    THEN [pc |-> "threw", frame |-> f, result |-> NotFound]
    ELSE IF f.shape = "direct"
    THEN [pc |-> "probe", frame |-> [f EXCEPT !.shape = "index"], result |-> NotFound]
    ELSE IF NextFrame(f).bi <= Len(templatePaths)
    THEN [pc |-> "probe", frame |-> NextFrame(f), result |-> NotFound]
    ELSE [pc |-> "done", frame |-> NextFrame(f), result |-> NotFound]

\* What follows one awaited access() in findComponentFile: `return` on success,
\* the index probe after a rejected direct probe, `continue` after a rejected
\* index probe, `return undefined` after the loops.
ProbeOutcome(f, p, ok) ==
    IF ok THEN [pc |-> "done", frame |-> f, result |-> p]
    ELSE IF f.shape = "direct"
    THEN [pc |-> "probe", frame |-> [f EXCEPT !.shape = "index"], result |-> NotFound]
    ELSE IF NextFrame(f).bi <= Len(templatePaths)
    THEN [pc |-> "probe", frame |-> NextFrame(f), result |-> NotFound]
    ELSE [pc |-> "done", frame |-> NextFrame(f), result |-> NotFound]

\* The same in the earliest provideDefinition: the catch block only continues.
ProbeOutcomeEarliest(f, p, ok) ==
    IF ok THEN [pc |-> "done", frame |-> f, result |-> p]
    ELSE IF NextFrame(f).bi <= Len(templatePaths)
    THEN [pc |-> "probe", frame |-> NextFrame(f), result |-> NotFound]
    ELSE [pc |-> "done", frame |-> NextFrame(f), result |-> NotFound]

\* No call has resolved yet
NoEarlier == [recorded |-> FALSE, called |-> FALSE, found |-> FALSE]

\* No call has resolved yet, and what calls resolve to is recorded
NothingRecorded == [recorded |-> TRUE, called |-> FALSE, found |-> FALSE]

\* No provider has been called yet
NoReply == [op |-> "none"]

\* No template file is read and no provider is called
EditIdle ==
    /\ fileContent = << >>
    /\ cursor = 0
    /\ reply = NoReply
    /\ declaration = [present |-> FALSE, attrs |-> << >>, close |-> << >>]

\* No completion list has been asked for
NotHanded == [returned |-> FALSE, defined |-> FALSE, list |-> << >>]

NotScanning == [pc |-> "idle", k |-> 0]

CompletionIdle ==
    /\ templateDir = << >>
    /\ awaitsRead = FALSE
    /\ scan = NotScanning
    /\ completionItems = << >>
    /\ reads = {}
    /\ handed = NotHanded

\* No diagnosticCollection.set(document.uri, ...) has happened yet
Unset == [set |-> FALSE, diagnostics |-> << >>, sourceText |-> << >>]

\* No run of updateDiagnostics has started
NoHistory == [overlap |-> FALSE, replaced |-> -1]

\* A run was started while another was suspended; what set() replaces is
\* recorded no more
Overlapped == [overlap |-> TRUE, replaced |-> -1]

Init ==
    /\ componentName \in Names
    /\ templatePaths \in Configs
    /\ workspaceOpen \in BOOLEAN
    /\ fsFiles = {}
    /\ fsDenied = {}
    /\ callee = "none"
    /\ pc = "idle"
    /\ frame = IdleFrame
    /\ probeLog = << >>
    /\ result = NotFound
    /\ fsStable = TRUE
    /\ earlier = NoEarlier
    /\ kept = {}
    /\ languageId = "html"
    /\ docText = << >>
    /\ runs = EmptyBag
    /\ stored = Unset
    /\ history = NoHistory
    /\ EditIdle
    /\ CompletionIdle

\* Variant of Enter that hands back the path the call before it found
EnterCached(who) ==
    /\ pc \in {"idle", "done", "threw"}
    /\ callee' = who
    /\ probeLog' = << >>
    /\ fsStable' = TRUE
    /\ earlier' = IF earlier.recorded /\ pc = "done"
                  THEN [earlier EXCEPT !.called = TRUE, !.found = result # NotFound]
                  ELSE earlier
    /\ kept' = IF who = "findComponentFile" THEN fsFiles \ fsDenied ELSE {}
    /\ IF pc = "done" /\ result # NotFound
       THEN pc' = "done" /\ frame' = frame /\ result' = result
       ELSE /\ result' = NotFound
            /\ IF workspaceOpen /\ Len(templatePaths) > 0
               THEN pc' = "probe" /\ frame' = FirstFrame(componentName)
               ELSE pc' = "done" /\ frame' = IdleFrame
    /\ UNCHANGED << componentName, envVars, diagVars, editVars, completionVars >>

\* The code of a resolver from its entry to its first await or return
Enter(who) ==
    /\ pc \in {"idle", "done", "threw"}
    /\ callee' = who
    /\ probeLog' = << >>
    /\ result' = NotFound
    /\ fsStable' = TRUE
    /\ earlier' = IF earlier.recorded /\ pc = "done"
                  THEN [earlier EXCEPT !.called = TRUE, !.found = result # NotFound]
                  ELSE earlier
    /\ kept' = IF who = "findComponentFile" THEN fsFiles \ fsDenied ELSE {}
    /\ IF workspaceOpen /\ Len(templatePaths) > 0
       THEN pc' = "probe" /\ frame' = FirstFrame(componentName)
       ELSE pc' = "done" /\ frame' = IdleFrame
    /\ UNCHANGED << componentName, envVars, diagVars, editVars, completionVars >>

\* CottonUtils.findComponentFile(componentName) is called
Call == Enter("findComponentFile")

\* The earliest provideDefinition reaches its resolution loop
CallEarliest == Enter("provideDefinitionEarliest")

\* One awaited fs.promises.access and the code up to the next await or return
Probe ==
    /\ pc = "probe"
    /\ callee = "findComponentFile"
    /\ LET p == FramePath(frame)
           ok == AccessOk(p)
           out == ProbeOutcome(frame, p, ok)
       IN  /\ probeLog' = Append(probeLog, [path |-> p, ok |-> ok])
           /\ pc' = out.pc
           /\ frame' = out.frame
           /\ result' = out.result
    /\ UNCHANGED << componentName, callee, fsStable, earlier, kept,
                    envVars, diagVars, editVars, completionVars >>

ProbeEarliest ==
    /\ pc = "probe"
    /\ callee = "provideDefinitionEarliest"
    /\ LET p == FramePath(frame)
           ok == AccessOk(p)
           out == ProbeOutcomeEarliest(frame, p, ok)
       IN  /\ probeLog' = Append(probeLog, [path |-> p, ok |-> ok])
           /\ pc' = out.pc
           /\ frame' = out.frame
           /\ result' = out.result
    /\ UNCHANGED << componentName, callee, fsStable, earlier, kept,
                    envVars, diagVars, editVars, completionVars >>

(* The file system changes under the extension *)
FsCreate ==
    /\ Cardinality(fsFiles) < MaxFiles
    /\ \E p \in FsUniverse \ fsFiles : fsFiles' = fsFiles \cup {p}
    /\ fsStable' = FALSE
    /\ UNCHANGED << componentName, templatePaths, workspaceOpen, fsDenied,
                    callee, pc, frame, probeLog, result,
                    diagVars, editVars, completionVars >>
    /\ kept' = IF pc = "probe" THEN kept \cap (fsFiles' \ fsDenied') ELSE {}
    /\ earlier' = IF pc = "probe" THEN earlier
                  ELSE [earlier EXCEPT !.called = FALSE, !.found = FALSE]

FsRemove ==
    /\ \E p \in fsFiles :
          /\ fsFiles' = fsFiles \ {p}
          /\ fsDenied' = fsDenied \ {p}
    /\ fsStable' = FALSE
    /\ UNCHANGED << componentName, templatePaths, workspaceOpen,
                    callee, pc, frame, probeLog, result,
                    diagVars, editVars, completionVars >>
    /\ kept' = IF pc = "probe" THEN kept \cap (fsFiles' \ fsDenied') ELSE {}
    /\ earlier' = IF pc = "probe" THEN earlier
                  ELSE [earlier EXCEPT !.called = FALSE, !.found = FALSE]

\* A permission or I/O fault makes access() reject on an existing path
FsDeny ==
    /\ \E p \in fsFiles \ fsDenied : fsDenied' = fsDenied \cup {p}
    /\ fsStable' = FALSE
    /\ UNCHANGED << componentName, templatePaths, workspaceOpen, fsFiles,
                    callee, pc, frame, probeLog, result,
                    diagVars, editVars, completionVars >>
    /\ kept' = IF pc = "probe" THEN kept \cap (fsFiles' \ fsDenied') ELSE {}
    /\ earlier' = IF pc = "probe" THEN earlier
                  ELSE [earlier EXCEPT !.called = FALSE, !.found = FALSE]

FsAllow ==
    /\ \E p \in fsDenied : fsDenied' = fsDenied \ {p}
    /\ fsStable' = FALSE
    /\ UNCHANGED << componentName, templatePaths, workspaceOpen, fsFiles,
                    callee, pc, frame, probeLog, result,
                    diagVars, editVars, completionVars >>
    /\ kept' = IF pc = "probe" THEN kept \cap (fsFiles' \ fsDenied') ELSE {}
    /\ earlier' = IF pc = "probe" THEN earlier
                  ELSE [earlier EXCEPT !.called = FALSE, !.found = FALSE]

Next ==
    \/ Call
    \/ Probe
    \/ CallEarliest
    \/ ProbeEarliest
    \/ FsCreate
    \/ FsRemove
    \/ FsDeny
    \/ FsAllow

Spec == Init /\ [][Next]_vars

\* The same calls and file system changes, with what the call before the
\* running one resolved to on record
CallsInit ==
    /\ componentName \in Names
    /\ templatePaths \in Configs
    /\ workspaceOpen \in BOOLEAN
    /\ fsFiles = {}
    /\ fsDenied = {}
    /\ callee = "none"
    /\ pc = "idle"
    /\ frame = IdleFrame
    /\ probeLog = << >>
    /\ result = NotFound
    /\ fsStable = TRUE
    /\ earlier = NothingRecorded
    /\ kept = {}
    /\ languageId = "html"
    /\ docText = << >>
    /\ runs = EmptyBag
    /\ stored = Unset
    /\ history = NoHistory
    /\ EditIdle
    /\ CompletionIdle

CallsSpec == CallsInit /\ [][Next]_vars

TypeOK ==
    /\ pc \in {"idle", "probe", "done", "threw"}
    /\ fsDenied \subseteq fsFiles
    /\ Cardinality(fsFiles) <= MaxFiles

----------------------------------------------------------------------------
(* CottonDiagnosticProvider *)

MaxPending == 1

COTTON_BUILTIN_DIRECTIVES ==
    << << "v", "a", "r", "s" >>,
       << "s", "l", "o", "t" >>,
       << "c", "o", "m", "p", "o", "n", "e", "n", "t" >> >>

HtmlLanguages == << "html", "django-html" >>

LanguageIds == {"django-html", "plaintext"}

\* Array.prototype.includes
Includes(arr, x) == \E i \in DOMAIN arr : arr[i] = x

\* The character classes of cottonTagRegex: \w, [\w.-] and \s
WordChars ==
    { "a", "b", "c", "d", "e", "f", "g", "h", "i", "j", "k", "l", "m",
      "n", "o", "p", "q", "r", "s", "t", "u", "v", "w", "x", "y", "z",
      "A", "B", "C", "D", "E", "F", "G", "H", "I", "J", "K", "L", "M",
      "N", "O", "P", "Q", "R", "S", "T", "U", "V", "W", "X", "Y", "Z",
      "0", "1", "2", "3", "4", "5", "6", "7", "8", "9", "_" }

NameChars == WordChars \cup {".", "-"}

Whitespace == {" ", "\t", "\n", "\r", "\f"}

\* text[k] of JavaScript (offsets from 0); "" past the end
CharAt(text, k) == IF k >= 0 /\ k < Len(text) THEN text[k + 1] ELSE ""

\* Length of the run matched by [\w.-]* from offset k
RECURSIVE NameRun(_, _)
NameRun(text, k) ==
    IF CharAt(text, k) \in NameChars THEN 1 + NameRun(text, k + 1) ELSE 0

\* Offset of the first ">" at or after offset k, or -1
RECURSIVE FirstGt(_, _)
FirstGt(text, k) ==
    IF k >= Len(text) THEN -1
    ELSE IF CharAt(text, k) = ">" THEN k
    ELSE FirstGt(text, k + 1)

\* Variant of MatchEnd whose pattern also accepts the closing prefix "</c-"
MatchEndAlsoClosing(text, i) ==
    LET o == IF CharAt(text, i + 1) = "/" THEN i + 1 ELSE i
        n == NameRun(text, o + 3)
        j == o + 3 + n
    IN  IF ~( /\ CharAt(text, i) = "<"
              /\ CharAt(text, o + 1) = "c"
              /\ CharAt(text, o + 2) = "-"
              /\ n >= 1 )
        THEN -1
        ELSE IF CharAt(text, j) \in Whitespace /\ FirstGt(text, j + 1) # -1
        THEN FirstGt(text, j + 1) + 1
        ELSE IF CharAt(text, j) = "/" /\ CharAt(text, j + 1) = ">" THEN j + 2
        ELSE IF CharAt(text, j) = ">" THEN j + 1
        ELSE -1

\* /<c-([\w.-]+)(?:\s[^>]*)?(?:\/?>|>)/ anchored at offset i: the offset after
\* the match, or -1. The name is the maximal run (a shorter one is followed by
\* a name character, which no later part of the pattern accepts); after
\* whitespace the match runs to the first ">".
MatchEnd(text, i) ==
    LET n == NameRun(text, i + 3)
        j == i + 3 + n
    IN  IF ~( /\ CharAt(text, i) = "<"
              /\ CharAt(text, i + 1) = "c"
              /\ CharAt(text, i + 2) = "-"
              /\ n >= 1 )
        THEN -1
        ELSE IF CharAt(text, j) \in Whitespace /\ FirstGt(text, j + 1) # -1
        THEN FirstGt(text, j + 1) + 1
        ELSE IF CharAt(text, j) = "/" /\ CharAt(text, j + 1) = ">" THEN j + 2
        ELSE IF CharAt(text, j) = ">" THEN j + 1
        ELSE -1

NoMatch == [index |-> -1, name |-> << >>, end |-> -1]

\* cottonTagRegex.exec(text) with lastIndex = from: the leftmost match
RECURSIVE RegexExec(_, _)
RegexExec(text, from) ==
    IF from >= Len(text) THEN NoMatch
    ELSE IF MatchEnd(text, from) # -1
    THEN [index |-> from,
          name |-> SubSeq(text, from + 4, from + 3 + NameRun(text, from + 3)),
          end |-> MatchEnd(text, from)]
    ELSE RegexExec(text, from + 1)

\* document.positionAt(offset) on the text the document has at that moment
PositionAt(text, offset) ==
    LET off == IF offset > Len(text) THEN Len(text) ELSE offset
        breaks == { k \in 1..off : text[k] = "\n" }
        lineStart == IF breaks = {} THEN 0
                     ELSE CHOOSE k \in breaks : \A m \in breaks : m <= k
    IN  [line |-> Cardinality(breaks), character |-> off - lineStart]

\* Variant of getExpectedPaths that lists the base directories in reverse
getExpectedPathsReversed(name) ==
    LET tagPath == ReplaceAll(name, ".", "/")
        RECURSIVE From(_)
        From(b) ==
            IF b < 1 THEN << >>
            ELSE << templatePaths[b] \o << "/" >> \o tagPath \o DotHtml,
                    templatePaths[b] \o << "/" >> \o tagPath \o << "/" >> \o IndexHtml >>
                 \o From(b - 1)
    IN  From(Len(templatePaths))

getExpectedPaths(name) ==
    LET tagPath == ReplaceAll(name, ".", "/")
        RECURSIVE From(_)
        From(b) ==
            IF b > Len(templatePaths) THEN << >>
            ELSE << templatePaths[b] \o << "/" >> \o tagPath \o DotHtml,
                    templatePaths[b] \o << "/" >> \o tagPath \o << "/" >> \o IndexHtml >>
                 \o From(b + 1)
    IN  From(1)

\* Variant of DiagnosticRange whose end forgets the length of the prefix
DiagnosticRangeShortEnd(live, tagStart, name) ==
    [start |-> PositionAt(live, tagStart),
     end |-> PositionAt(live, tagStart + Len(name))]

\* new vscode.Range(startPos, endPos) of lines 476-480
DiagnosticRange(live, tagStart, name) ==
    [start |-> PositionAt(live, tagStart),
     end |-> PositionAt(live, tagStart + Len(<< "<", "c", "-" >> \o name))]

\* new vscode.Diagnostic(...) of lines 479-486. `live` is the text of the
\* document when positionAt is called, `read` the text the run scans;
\* inSync records that the two are equal.
MakeDiagnostic(live, read, tagStart, name) ==
    [range |-> DiagnosticRange(live, tagStart, name),
     message |-> [componentName |-> name, expected |-> getExpectedPaths(name)],
     severity |-> "Error",
     code |-> "cotton-component-not-found",
     source |-> "Cotton",
     inSync |-> (live = read)]

\* findComponentFile returns before its first await
ResolvesAtOnce == ~workspaceOpen \/ Len(templatePaths) = 0

\* Variant of IsBuiltin that knows only the declaration tag
IsBuiltinVarsOnly(name) == name = COTTON_BUILTIN_DIRECTIVES[1]

\* COTTON_BUILTIN_DIRECTIVES.includes(componentName)
IsBuiltin(name) == Includes(COTTON_BUILTIN_DIRECTIVES, name)

\* The while loop of updateDiagnostics from regex position `from` up to its
\* next suspension (an awaited access) or to its end
RECURSIVE Advance(_, _, _, _)
Advance(text, from, diags, live) ==
    LET m == RegexExec(text, from)
    IN  IF m = NoMatch THEN [done |-> TRUE, diagnostics |-> diags]
        ELSE IF IsBuiltin(m.name) THEN Advance(text, m.end, diags, live)
        ELSE IF ResolvesAtOnce
        THEN Advance(text, m.end,
                     Append(diags, MakeDiagnostic(live, text, m.index, m.name)), live)
        ELSE [done |-> FALSE,
              run |-> [text |-> text, lastIndex |-> m.end,
                       componentName |-> m.name, tagStart |-> m.index,
                       frame |-> FirstFrame(m.name), diagnostics |-> diags]]

\* Variant of Stored that adds the entries to those already stored
StoredMerged(diags, text) ==
    [set |-> TRUE, diagnostics |-> stored.diagnostics \o diags, sourceText |-> text]

\* this.diagnosticCollection.set(document.uri, diagnostics)
Stored(diags, text) == [set |-> TRUE, diagnostics |-> diags, sourceText |-> text]

----------------------------------------------------------------------------
(* Documents: text, component tags, closing tags, reserved tags *)

Tok(chars, kind, name) == [chars |-> chars, kind |-> kind, name |-> name]

NameA == << "a" >>

NameAB == << "a", "-", "b" >>

TOpenA == Tok(<< "<", "c", "-", "a", ">" >>, "open", NameA)

TSelfA == Tok(<< "<", "c", "-", "a", "/", ">" >>, "open", NameA)

TCloseA == Tok(<< "<", "/", "c", "-", "a", ">" >>, "close", NameA)

TOpenAB ==
    Tok(<< "<", "c", "-", "a", "-", "b", "\n", "x", "=", "\"", "1", "\"", ">" >>,
        "open", NameAB)

TCloseAB == Tok(<< "<", "/", "c", "-", "a", "-", "b", ">" >>, "close", NameAB)

TVars ==
    Tok(<< "<", "c", "-", "v", "a", "r", "s", " ", "t", " ", "/", ">" >>,
        "reserved", << "v", "a", "r", "s" >>)

TSlot == Tok(<< "<", "c", "-", "s", "l", "o", "t", ">" >>, "reserved", << "s", "l", "o", "t" >>)

TComponent ==
    Tok(<< "<", "c", "-", "c", "o", "m", "p", "o", "n", "e", "n", "t", "/", ">" >>,
        "reserved", << "c", "o", "m", "p", "o", "n", "e", "n", "t" >>)

TText == Tok(<< "x", "\n" >>, "text", << >>)

DocSources ==
    { << TOpenA, TText, TCloseA >>,
      << TVars, TSlot, TComponent, TCloseA >>,
      << TText, TVars, TOpenAB, TText, TSelfA, TCloseAB >>,
      << TText >> }

RECURSIVE Flatten(_)
Flatten(toks) ==
    IF toks = << >> THEN << >> ELSE toks[1].chars \o Flatten(Tail(toks))

DocTexts == { Flatten(d) : d \in DocSources }

\* Template files that may exist while diagnostics run
DiagFiles ==
    { TemplatePath(TemplatesCotton, NameA),
      IndexPath(TemplatesCotton, << "a", "_", "b" >>) }

DiagConfigs == { << TemplatesCotton >>, << OtherTemplates, TemplatesCotton >> }

----------------------------------------------------------------------------
(* updateDiagnostics and the events that trigger it *)

DiagInit ==
    /\ componentName = << >>
    /\ templatePaths \in DiagConfigs
    /\ workspaceOpen \in BOOLEAN
    /\ fsFiles \in SUBSET DiagFiles
    /\ fsDenied = {}
    /\ callee = "none"
    /\ pc = "idle"
    /\ frame = IdleFrame
    /\ probeLog = << >>
    /\ result = NotFound
    /\ fsStable = TRUE
    /\ earlier = NoEarlier
    /\ kept = {}
    /\ languageId \in LanguageIds
    /\ docText \in DocTexts
    /\ runs = EmptyBag
    /\ stored = Unset
    /\ history = NoHistory
    /\ EditIdle
    /\ CompletionIdle

\* The number of entries that the next diagnosticCollection.set replaces, -1
\* when nothing is stored yet
Replaced == IF stored.set THEN Len(stored.diagnostics) ELSE -1

\* updateDiagnostics(document) from its call to its first await or its end
StartRun(text) ==
    IF ~Includes(HtmlLanguages, languageId)
    THEN UNCHANGED << runs, stored, history >>
    ELSE LET a == Advance(text, 0, << >>, text)
         IN  IF a.done
             THEN /\ stored' = Stored(a.diagnostics, text)
                  /\ history' = IF history.overlap \/ runs # EmptyBag
                                THEN Overlapped
                                ELSE [history EXCEPT !.replaced = Replaced]
                  /\ UNCHANGED runs
             ELSE /\ BagCardinality(runs) < MaxPending
                  /\ runs' = runs (+) SetToBag({a.run})
                  /\ history' = IF runs # EmptyBag THEN Overlapped ELSE history
                  /\ UNCHANGED stored


\* onDidOpenTextDocument
DidOpen ==
    /\ StartRun(docText)
    /\ UNCHANGED << docText, languageId, envVars, resolverVars, editVars, completionVars >>

\* onDidSaveTextDocument
DidSave ==
    /\ StartRun(docText)
    /\ UNCHANGED << docText, languageId, envVars, resolverVars, editVars, completionVars >>

\* onDidChangeTextDocument: the text is already the new one
DidChange ==
    /\ \E t \in DocTexts \ {docText} :
          /\ docText' = t
          /\ StartRun(t)
    /\ UNCHANGED << languageId, envVars, resolverVars, editVars, completionVars >>

\* One awaited access() of a suspended run and the code up to its next await
\* or to diagnosticCollection.set
RunProbe ==
    /\ \E r \in BagToSet(runs) :
          LET p == FramePath(r.frame)
              out == ProbeOutcome(r.frame, p, AccessOk(p))
              rest == runs (-) SetToBag({r})
          IN  IF out.pc = "probe"
              THEN /\ runs' = rest (+) SetToBag({[r EXCEPT !.frame = out.frame]})
                   /\ UNCHANGED << stored, history >>
              ELSE LET diags ==
                           IF out.result = NotFound
                           THEN Append(r.diagnostics,
                                       MakeDiagnostic(docText, r.text, r.tagStart,
                                                      r.componentName))
                           ELSE r.diagnostics
                       a == Advance(r.text, r.lastIndex, diags, docText)
                   IN  IF a.done
                       THEN /\ stored' = Stored(a.diagnostics, r.text)
                            /\ history' = IF history.overlap THEN Overlapped
                                           ELSE [history EXCEPT !.replaced = Replaced]
                            /\ runs' = rest
                       ELSE /\ runs' = rest (+) SetToBag({a.run})
                            /\ UNCHANGED << stored, history >>
    /\ UNCHANGED << docText, languageId, envVars, resolverVars, editVars, completionVars >>

DiagNext ==
    \/ DidOpen
    \/ DidSave
    \/ DidChange
    \/ RunProbe

DiagSpec == DiagInit /\ [][DiagNext]_vars

----------------------------------------------------------------------------
(* CottonAttributeCompletionProvider.parseCVars *)

MaxAttrs == 3

CVarsTag == << "<", "c", "-", "v", "a", "r", "s" >>

Quotes == { "\"", "'" }

\* text.startsWith(word, k)
StartsWith(text, k, word) ==
    /\ k >= 0
    /\ k + Len(word) <= Len(text)
    /\ SubSeq(text, k + 1, k + Len(word)) = word

\* text.substring(from, to), offsets from 0
Substring(text, from, to) ==
    IF to <= from THEN << >> ELSE SubSeq(text, from + 1, to)

\* Offset of the first character at or after k that \s does not match
RECURSIVE SkipWhitespace(_, _)
SkipWhitespace(text, k) ==
    IF CharAt(text, k) \in Whitespace THEN SkipWhitespace(text, k + 1) ELSE k

\* Length of the run matched by \w* from offset k
RECURSIVE WordRun(_, _)
WordRun(text, k) ==
    IF CharAt(text, k) \in WordChars THEN 1 + WordRun(text, k + 1) ELSE 0

\* Offset of the first quote character at or after offset k, or -1
RECURSIVE FirstQuote(_, _)
FirstQuote(text, k) ==
    IF k >= Len(text) THEN -1
    ELSE IF CharAt(text, k) \in Quotes THEN k
    ELSE FirstQuote(text, k + 1)

NoCVarsMatch == [found |-> FALSE, attributesString |-> << >>]

\* /<c-vars\s+([^>]+)>/ anchored at offset i. \s+ takes the whole whitespace
\* run and the group runs to the first ">"; when the ">" follows the
\* whitespace at once, \s+ gives its last character back to the group, which
\* it can only do if the run has two characters or more.
CVarsMatchAt(text, i) ==
    LET j == i + Len(CVarsTag)
        w == SkipWhitespace(text, j)
        g == FirstGt(text, w)
    IN  IF ~StartsWith(text, i, CVarsTag) \/ w = j \/ g = -1 THEN NoCVarsMatch
        ELSE IF g > w
        THEN [found |-> TRUE, attributesString |-> Substring(text, w, g)]
        ELSE IF w - j >= 2
        THEN [found |-> TRUE, attributesString |-> Substring(text, w - 1, g)]
        ELSE NoCVarsMatch

\* content.match(/<c-vars\s+([^>]+)>/): the leftmost match
RECURSIVE CVarsMatch(_, _)
CVarsMatch(text, from) ==
    IF from >= Len(text) THEN NoCVarsMatch
    ELSE IF CVarsMatchAt(text, from).found THEN CVarsMatchAt(text, from)
    ELSE CVarsMatch(text, from + 1)

\* /(:?)(\w+)(?:=["']([^"']*)["'])?/ anchored at offset p: end is -1 when
\* there is no match. The value runs from the opening quote to the next
\* quote character of either kind.
AttributeMatchAt(s, p) ==
    LET c == IF CharAt(s, p) = ":" /\ CharAt(s, p + 1) \in WordChars THEN 1 ELSE 0
        n == WordRun(s, p + c)
        e == p + c + n
        q == FirstQuote(s, e + 2)
        hasValue == CharAt(s, e) = "=" /\ CharAt(s, e + 1) \in Quotes /\ q # -1
    IN  IF n = 0 THEN [end |-> -1]
        ELSE [end |-> IF hasValue THEN q + 1 ELSE e,
              hasColon |-> (c = 1),
              name |-> Substring(s, p + c, e),
              value |-> IF hasValue THEN Substring(s, e + 2, q) ELSE << >>]

\* The while loop over attributeRegex.exec(attributesString) from lastIndex
RECURSIVE CVarsLoop(_, _)
CVarsLoop(s, from) ==
    IF from >= Len(s) THEN << >>
    ELSE LET m == AttributeMatchAt(s, from)
         IN  IF m.end = -1 THEN CVarsLoop(s, from + 1)
             ELSE << [name |-> m.name,
                      defaultValue |-> m.value,
                      isDjangoExpression |-> m.hasColon] >>
                  \o CVarsLoop(s, m.end)

Undefined == [defined |-> FALSE, list |-> << >>]

Defined(list) == [defined |-> TRUE, list |-> list]

\* parseCVars(filePath) on a file with this content; readOk is whether
\* fs.promises.readFile resolved
parseCVars(content, readOk) ==
    IF ~readOk THEN Undefined
    ELSE LET cVarsMatch == CVarsMatch(content, 0)
         IN  IF ~cVarsMatch.found THEN Undefined
             ELSE Defined(CVarsLoop(cVarsMatch.attributesString, 0))

\* An attribute token `(:)?name(="value")?` as written in a declaration tag,
\* with the parameter it declares
Attr(chars, name, value, expr) ==
    [chars |-> chars, name |-> name, value |-> value, expr |-> expr]

\* title="Default"
AttrTitle ==
    Attr(<< "t", "i", "t", "l", "e", "=", "\"", "D", "e", "f", "a", "u", "l", "t", "\"" >>,
         << "t", "i", "t", "l", "e" >>, << "D", "e", "f", "a", "u", "l", "t" >>, FALSE)

\* :count="0"
AttrCount ==
    Attr(<< ":", "c", "o", "u", "n", "t", "=", "\"", "0", "\"" >>,
         << "c", "o", "u", "n", "t" >>, << "0" >>, TRUE)

\* disabled
AttrDisabled ==
    Attr(<< "d", "i", "s", "a", "b", "l", "e", "d" >>,
         << "d", "i", "s", "a", "b", "l", "e", "d" >>, << >>, FALSE)

\* a='x y'
AttrSingleQuoted ==
    Attr(<< "a", "=", "'", "x", " ", "y", "'" >>,
         << "a" >>, << "x", " ", "y" >>, FALSE)

\* msg="it's"
AttrApostrophe ==
    Attr(<< "m", "s", "g", "=", "\"", "i", "t", "'", "s", "\"" >>,
         << "m", "s", "g" >>, << "i", "t", "'", "s" >>, FALSE)

\* :on="a>b"
AttrGreater ==
    Attr(<< ":", "o", "n", "=", "\"", "a", ">", "b", "\"" >>,
         << "o", "n" >>, << "a", ">", "b" >>, TRUE)

AttrPool ==
    { AttrTitle, AttrCount, AttrDisabled, AttrSingleQuoted, AttrApostrophe,
      AttrGreater }

\* The ways the declaration tag is closed after its last attribute
TagCloses == { << ">" >>, << " ", ">" >>, << " ", " ", ">" >>, << " ", "/", ">" >> }

\* The attribute lists a declaration tag is written with
AttrLists == UNION { [1..n -> AttrPool] : n \in 0..MaxAttrs }

RECURSIVE RenderAttrs(_)
RenderAttrs(attrs) ==
    IF attrs = << >> THEN << >>
    ELSE << " " >> \o attrs[1].chars \o RenderAttrs(Tail(attrs))

\* A template file with a declaration tag on its second line
RenderDeclaration(attrs, close) ==
    << "<", "!", "-", "-", " ", "c", "a", "r", "d", " ", "-", "-", ">", "\n" >>
        \o CVarsTag \o RenderAttrs(attrs) \o close \o << "\n", "<", "p", ">", "x", "<", "/", "p", ">", "\n" >>

\* Template files without a declaration tag
PlainContents == { << >>, << "<", "p", ">", "v", "a", "r", "s", "<", "/", "p", ">" >>, << "<", "c", "-", "v", "a", "r", "s", "i", "t", "y", " ", "x", ">" >> }

\* The template file as its author wrote it: present says whether it has a
\* declaration tag
NoDeclaration == [present |-> FALSE, attrs |-> << >>, close |-> << >>]

Declarations ==
    { NoDeclaration }
        \cup { [present |-> TRUE, attrs |-> a, close |-> c] :
                  a \in AttrLists, c \in TagCloses }

\* parseCVars is called on the template file
ParseInit ==
    /\ componentName = << >>
    /\ templatePaths = << TemplatesCotton >>
    /\ workspaceOpen = TRUE
    /\ fsFiles = {}
    /\ fsDenied = {}
    /\ callee = "none"
    /\ pc = "idle"
    /\ frame = IdleFrame
    /\ probeLog = << >>
    /\ result = NotFound
    /\ fsStable = TRUE
    /\ earlier = NoEarlier
    /\ kept = {}
    /\ languageId = "html"
    /\ docText = << >>
    /\ runs = EmptyBag
    /\ stored = Unset
    /\ history = NoHistory
    /\ cursor = 0
    /\ reply = NoReply
    /\ CompletionIdle
    /\ declaration \in Declarations
    /\ IF declaration.present
       THEN fileContent = RenderDeclaration(declaration.attrs, declaration.close)
       ELSE fileContent \in PlainContents

\* await this.parseCVars(componentFilePath), readFile resolving or rejecting
ParseCVars ==
    /\ \E readOk \in BOOLEAN :
          reply' = [op |-> "parseCVars", readOk |-> readOk,
                    cVars |-> parseCVars(fileContent, readOk)]
    /\ UNCHANGED << fileContent, declaration, cursor, envVars, resolverVars, diagVars,
                    completionVars >>

ParseNext == ParseCVars

ParseSpec == ParseInit /\ [][ParseNext]_vars

----------------------------------------------------------------------------
(* The tag locator: CottonUtils.findCottonComponentAtPosition and the inline
   code of the earliest CottonDefinitionProvider.provideDefinition *)

\* Offset of the first character of a line of the text
RECURSIVE LineStart(_, _)
LineStart(text, line) ==
    IF line = 0 THEN 0
    ELSE LET prev == LineStart(text, line - 1)
             RECURSIVE Eol(_)
             Eol(k) == IF k >= Len(text) \/ CharAt(text, k) = "\n" THEN k ELSE Eol(k + 1)
         IN  Eol(prev) + 1

\* document.lineAt(line).text
LineText(text, line) ==
    LET from == LineStart(text, line)
        RECURSIVE Eol(_)
        Eol(k) == IF k >= Len(text) \/ CharAt(text, k) = "\n" THEN k ELSE Eol(k + 1)
    IN  Substring(text, from, Eol(from))

\* document.offsetAt(position)
OffsetOf(text, pos) == LineStart(text, pos.line) + pos.character

Position(line, character) == [line |-> line, character |-> character]

Range(start, end) == [start |-> start, end |-> end]

NoComponent == [found |-> FALSE]

\* The while loop over /c-([\w.-]+)/g.exec(line) from lastIndex `from`: the
\* leftmost match is at the first "c-" followed by a name character, and the
\* name is the maximal run
RECURSIVE CottonPatternLoop(_, _, _)
CottonPatternLoop(line, from, pos) ==
    IF from >= Len(line) THEN NoComponent
    ELSE LET n == IF StartsWith(line, from, << "c", "-" >>)
                  THEN NameRun(line, from + 2) ELSE 0
             matchStart == from
             matchEnd == matchStart + 2 + n
             nameStart == matchStart + 2
             nameEnd == nameStart + n
         IN  IF n = 0 THEN CottonPatternLoop(line, from + 1, pos)
             ELSE IF pos.character >= matchStart /\ pos.character <= matchEnd
             THEN [found |-> TRUE,
                   componentName |-> Substring(line, nameStart, nameEnd),
                   range |-> Range(Position(pos.line, nameStart),
                                   Position(pos.line, nameEnd))]
             ELSE CottonPatternLoop(line, matchEnd, pos)

findCottonComponentAtPosition(text, pos) ==
    CottonPatternLoop(LineText(text, pos.line), 0, pos)

\* line.lastIndexOf("<", char): the last "<" at an offset <= char, or -1
RECURSIVE LastIndexOfLt(_, _)
LastIndexOfLt(line, char) ==
    IF char < 0 THEN -1
    ELSE IF CharAt(line, char) = "<" THEN char
    ELSE LastIndexOfLt(line, char - 1)

\* Lines 1371-1404 of the earliest provideDefinition: the tag around the
\* cursor, its name and hoverRange
LocateEarliest(text, pos) ==
    LET line == LineText(text, pos.line)
        tagStart == LastIndexOfLt(line, pos.character)
        tagEnd == IF tagStart = -1 THEN -1 ELSE FirstGt(line, tagStart)
        fullTag == Substring(line, tagStart, tagEnd + 1)
        closing == StartsWith(fullTag, 0, << "<", "/" >>)
        p == IF closing THEN 4 ELSE 3
        n == NameRun(fullTag, p)
        componentStart == tagStart + (IF closing THEN 2 ELSE 1)
        componentEnd == componentStart + n + 2
    IN  IF tagStart = -1 \/ tagEnd = -1 THEN NoComponent
        ELSE IF ~StartsWith(fullTag, 0, << "<", "c", "-" >>)
                /\ ~StartsWith(fullTag, 0, << "<", "/", "c", "-" >>)
        THEN NoComponent
        ELSE IF n = 0 THEN NoComponent
        ELSE [found |-> TRUE,
              componentName |-> Substring(fullTag, p, p + n),
              range |-> Range(Position(pos.line, componentStart),
                              Position(pos.line, componentEnd))]

----------------------------------------------------------------------------
(* Documents under edit: the pieces of component tags, with the cursor at any
   offset *)

\* <c-forms.input
PStartForms == Tok(<< "<", "c", "-", "f", "o", "r", "m", "s", ".", "i", "n", "p", "u", "t" >>, "start", << "f", "o", "r", "m", "s", ".", "i", "n", "p", "u", "t" >>)

\* </c-forms.input>
PCloseForms == Tok(<< "<", "/", "c", "-", "f", "o", "r", "m", "s", ".", "i", "n", "p", "u", "t", ">" >>, "close", << "f", "o", "r", "m", "s", ".", "i", "n", "p", "u", "t" >>)

\* <c-a
PStartA == Tok(<< "<", "c", "-", "a" >>, "start", << "a" >>)

\* </c-a>
PCloseA == Tok(<< "<", "/", "c", "-", "a", ">" >>, "close", << "a" >>)

\*  
PSpace == Tok(<< " " >>, "space", << >>)

\* \n
PNewline == Tok(<< "\n" >>, "space", << >>)

\* \n 
PIndent == Tok(<< "\n", " " >>, "space", << >>)

\* >
PGt == Tok(<< ">" >>, "end", << >>)

\* />
PSlashGt == Tok(<< "/", ">" >>, "end", << >>)

\* placeholder="x"
PPlaceholder == Tok(<< "p", "l", "a", "c", "e", "h", "o", "l", "d", "e", "r", "=", "\"", "x", "\"" >>, "attr", << "p", "l", "a", "c", "e", "h", "o", "l", "d", "e", "r" >>)

\* count="5"
PCount5 == Tok(<< "c", "o", "u", "n", "t", "=", "\"", "5", "\"" >>, "attr", << "c", "o", "u", "n", "t" >>)

\* :count="n"
PColonCountN == Tok(<< ":", "c", "o", "u", "n", "t", "=", "\"", "n", "\"" >>, "attr", << ":", "c", "o", "u", "n", "t" >>)

\* la
PLa == Tok(<< "l", "a" >>, "attr", << "l", "a" >>)

\* LA
PUpperLa == Tok(<< "L", "A" >>, "attr", << "L", "A" >>)

\* :
PColon == Tok(<< ":" >>, "colon", << >>)

\* content
PContent == Tok(<< "c", "o", "n", "t", "e", "n", "t" >>, "text", << >>)

\* x\n
PLine == Tok(<< "x", "\n" >>, "text", << >>)

\* <p>\n
PPara == Tok(<< "<", "p", ">", "\n" >>, "text", << >>)

\* a form feed
PFormFeed == Tok(<< "\f" >>, "space", << >>)

\* <p class="c-a">
PClassCA == Tok(<< "<", "p", " ", "c", "l", "a", "s", "s", "=", "\"", "c", "-", "a", "\"", ">" >>, "text", << >>)

EditSources ==
    { << PStartForms, PSpace, PPlaceholder, PGt, PContent, PCloseForms >>,
      << PStartA, PSpace, PCount5, PSpace, PUpperLa, PGt, PLine, PCloseA >>,
      << PLine, PStartA, PIndent, PColonCountN, PIndent, PLa, PNewline, PSlashGt >>,
      << PPara, PStartA, PSpace, PCount5, PSpace, PColon >>,
      << PStartA, PSlashGt, PStartA, PSpace, PSlashGt >>,
      << PStartA, PSpace, PColon, PGt, PCloseA >>,
      << PStartA, PIndent, PLa, PGt, PLine, PCloseA >>,
      << PStartA, PSpace, PLa, PFormFeed >>,
      << PClassCA, PContent >>,
      << PStartA, PGt, PStartA, PGt, PLine, PCloseA, PCloseA >>,
      << PStartA, PGt, PLine, PStartA, PGt, PContent, PCloseA >>,
      << PStartA, PSpace, PLa, PGt, PStartForms >> }

EditTexts == { Flatten(d) : d \in EditSources }

\* Template files that may exist while a document is edited
EditFiles ==
    { TemplatePath(TemplatesCotton, NameA),
      IndexPath(TemplatesCotton, << "f", "o", "r", "m", "s", "/", "i", "n", "p", "u", "t" >>) }

----------------------------------------------------------------------------
(* CottonDefinitionProvider.provideDefinition, its current and earliest
   revision, on a file system that does not change during the request *)

\* The awaited probes of a resolver from frame f to its return value
RECURSIVE ResolveFrom(_)
ResolveFrom(f) ==
    LET out == ProbeOutcome(f, FramePath(f), AccessOk(FramePath(f)))
    IN  IF out.pc = "probe" THEN ResolveFrom(out.frame) ELSE out.result

RECURSIVE ResolveEarliestFrom(_)
ResolveEarliestFrom(f) ==
    LET out == ProbeOutcomeEarliest(f, FramePath(f), AccessOk(FramePath(f)))
    IN  IF out.pc = "probe" THEN ResolveEarliestFrom(out.frame) ELSE out.result

\* await CottonUtils.findComponentFile(componentName)
findComponentFile(name) ==
    IF ~workspaceOpen \/ Len(templatePaths) = 0 THEN NotFound
    ELSE ResolveFrom(FirstFrame(name))

NoDefinition == [defined |-> FALSE]

DefinitionLink(range, path) ==
    [defined |-> TRUE, originSelectionRange |-> range, targetUri |-> path]

\* Variant of provideDefinition that ignores cotton names after "</"
provideDefinitionOpeningOnly(text, pos) ==
    LET componentInfo == findCottonComponentAtPosition(text, pos)
        line == LineText(text, pos.line)
    IN  IF ~componentInfo.found THEN NoDefinition
        ELSE IF CharAt(line, componentInfo.range.start.character - 3) = "/"
        THEN NoDefinition
        ELSE IF findComponentFile(componentInfo.componentName) = NotFound
        THEN NoDefinition
        ELSE DefinitionLink(componentInfo.range,
                            findComponentFile(componentInfo.componentName))

provideDefinition(text, pos) ==
    LET componentInfo == findCottonComponentAtPosition(text, pos)
    IN  IF ~componentInfo.found THEN NoDefinition
        ELSE IF findComponentFile(componentInfo.componentName) = NotFound
        THEN NoDefinition
        ELSE DefinitionLink(componentInfo.range,
                            findComponentFile(componentInfo.componentName))

provideDefinitionEarliest(text, pos) ==
    LET located == LocateEarliest(text, pos)
        target == IF ~workspaceOpen \/ Len(templatePaths) = 0 THEN NotFound
                  ELSE ResolveEarliestFrom(FirstFrame(located.componentName))
    IN  IF ~located.found THEN NoDefinition
        ELSE IF target = NotFound THEN NoDefinition
        ELSE DefinitionLink(located.range, target)

----------------------------------------------------------------------------
(* CottonAttributeCompletionProvider: the tag around the cursor, the token
   being typed, the attributes the tag has and the suggestions *)

UpperLetters ==
    << "A", "B", "C", "D", "E", "F", "G", "H", "I", "J", "K", "L", "M",
       "N", "O", "P", "Q", "R", "S", "T", "U", "V", "W", "X", "Y", "Z" >>

LowerLetters ==
    << "a", "b", "c", "d", "e", "f", "g", "h", "i", "j", "k", "l", "m",
       "n", "o", "p", "q", "r", "s", "t", "u", "v", "w", "x", "y", "z" >>

\* String.prototype.toLowerCase
ToLowerCase(s) ==
    [i \in DOMAIN s |->
        IF \E k \in DOMAIN UpperLetters : UpperLetters[k] = s[i]
        THEN LowerLetters[CHOOSE k \in DOMAIN UpperLetters : UpperLetters[k] = s[i]]
        ELSE s[i]]

\* String.prototype.trim
RECURSIVE Trim(_)
Trim(s) ==
    IF s = << >> THEN s
    ELSE IF s[1] \in Whitespace THEN Trim(Tail(s))
    ELSE IF s[Len(s)] \in Whitespace THEN Trim(SubSeq(s, 1, Len(s) - 1))
    ELSE s

\* /<c-([\w.-]+)/ matches at offset k
TagOpeningAt(text, k) ==
    StartsWith(text, k, << "<", "c", "-" >>) /\ NameRun(text, k + 3) >= 1

\* The offset of the last match of tagOpeningRegex that starts at or before
\* offset k, or -1
RECURSIVE LastTagOpening(_, _)
LastTagOpening(text, k) ==
    IF k < 0 THEN -1
    ELSE IF TagOpeningAt(text, k) THEN k
    ELSE LastTagOpening(text, k - 1)

NoContext == [defined |-> FALSE]

\* Variant of findCottonTagContext that counts the ">" itself as outside
findCottonTagContextBeforeBracket(text, offset) ==
    LET textBeforeCursor == Substring(text, 0, offset)
        tagStartOffset == LastTagOpening(textBeforeCursor, offset - 1)
        name == Substring(textBeforeCursor, tagStartOffset + 3,
                          tagStartOffset + 3 + NameRun(textBeforeCursor, tagStartOffset + 3))
        closingBracketOffset == FirstGt(text, tagStartOffset)
    IN  IF tagStartOffset = -1 THEN NoContext
        ELSE IF closingBracketOffset = -1
        THEN [defined |-> TRUE, componentName |-> name, isInsideTag |-> TRUE,
              tagStartOffset |-> tagStartOffset]
        ELSE IF offset < closingBracketOffset
        THEN [defined |-> TRUE, componentName |-> name, isInsideTag |-> TRUE,
              tagStartOffset |-> tagStartOffset]
        ELSE NoContext

\* findCottonTagContext(document, position) with offset = offsetAt(position).
\* The loop keeps the last match of tagOpeningRegex in the text before the
\* cursor; after the test of the cursor against the ">" every path returns
\* undefined. tagStartOffset is kept for reference, the source returns the
\* name and the flag.
findCottonTagContext(text, offset) ==
    LET textBeforeCursor == Substring(text, 0, offset)
        tagStartOffset == LastTagOpening(textBeforeCursor, offset - 1)
        name == Substring(textBeforeCursor, tagStartOffset + 3,
                          tagStartOffset + 3 + NameRun(textBeforeCursor, tagStartOffset + 3))
        closingBracketOffset == FirstGt(text, tagStartOffset)
    IN  IF tagStartOffset = -1 THEN NoContext
        ELSE IF closingBracketOffset = -1
        THEN [defined |-> TRUE, componentName |-> name, isInsideTag |-> TRUE,
              tagStartOffset |-> tagStartOffset]
        ELSE IF offset <= closingBracketOffset
        THEN [defined |-> TRUE, componentName |-> name, isInsideTag |-> TRUE,
              tagStartOffset |-> tagStartOffset]
        ELSE NoContext

NoPartial == [defined |-> FALSE]

\* The backward walk of getPartialParameterAtPosition: the offset where the
\* token starts, or -1 when the walk meets =, a quote or >
RECURSIVE PartialStart(_, _)
PartialStart(line, start) ==
    IF start <= 0 THEN start
    ELSE IF CharAt(line, start - 1) \in {" ", "\t", "\n"} THEN start
    ELSE IF CharAt(line, start - 1) \in {"=", "\"", "'", ">"} THEN -1
    ELSE PartialStart(line, start - 1)

Letters == WordChars \ {"0", "1", "2", "3", "4", "5", "6", "7", "8", "9"}

\* Variant of LooksLikeParameter whose pattern lets the colon stand alone
LooksLikeParameterOrColon(s) ==
    LET c == IF CharAt(s, 0) = ":" THEN 1 ELSE 0
    IN  /\ Len(s) > c => CharAt(s, c) \in Letters
        /\ \A k \in (c + 1)..(Len(s) - 1) : CharAt(s, k) \in NameChars

\* /^:?[a-zA-Z_][\w.-]*$/.test(s)
LooksLikeParameter(s) ==
    LET c == IF CharAt(s, 0) = ":" THEN 1 ELSE 0
    IN  /\ CharAt(s, c) \in Letters
        /\ \A k \in (c + 1)..(Len(s) - 1) : CharAt(s, k) \in NameChars

\* Variant of getPartialParameterAtPosition that skips the test of the pattern
getPartialParameterAtPositionUntested(line, position, lineNumber) ==
    LET start == PartialStart(line, position)
        alreadyTyped == Trim(Substring(line, start, position))
    IN  IF start = -1 THEN NoPartial
        ELSE IF Len(alreadyTyped) > 0
        THEN [defined |-> TRUE, alreadyTyped |-> alreadyTyped,
              range |-> Range(Position(lineNumber, start), Position(lineNumber, position))]
        ELSE NoPartial

\* getPartialParameterAtPosition(line, position, lineNumber): the walk back to
\* a blank, tab or line break, the trim of what it covers, and the test of the
\* pattern
getPartialParameterAtPosition(line, position, lineNumber) ==
    LET start == PartialStart(line, position)
        alreadyTyped == Trim(Substring(line, start, position))
    IN  IF start = -1 THEN NoPartial
        ELSE IF Len(alreadyTyped) > 0 /\ LooksLikeParameter(alreadyTyped)
        THEN [defined |-> TRUE, alreadyTyped |-> alreadyTyped,
              range |-> Range(Position(lineNumber, start), Position(lineNumber, position))]
        ELSE NoPartial

\* new RegExp(`<c-${componentName}`, 'gi') matches at offset k
TagStartPatternAt(text, k, name) ==
    LET word == << "<", "c", "-" >> \o name
    IN  /\ k >= 0
        /\ k + Len(word) <= Len(text)
        /\ ToLowerCase(SubSeq(text, k + 1, k + Len(word))) = ToLowerCase(word)

RECURSIVE LastTagStart(_, _, _)
LastTagStart(text, k, name) ==
    IF k < 0 THEN -1
    ELSE IF TagStartPatternAt(text, k, name) THEN k
    ELSE LastTagStart(text, k - 1, name)

\* The while loop over /\s+(:?)(\w+)(?:=["'][^"']*["'])?/g.exec(tagContent)
\* from lastIndex `from`: the names it adds to the set
RECURSIVE ExistingLoop(_, _)
ExistingLoop(tagContent, from) ==
    IF from >= Len(tagContent) THEN {}
    ELSE LET m == AttributeMatchAt(tagContent, SkipWhitespace(tagContent, from))
         IN  IF CharAt(tagContent, from) \in Whitespace /\ m.end # -1
             THEN { IF m.hasColon THEN << ":" >> \o m.name ELSE m.name }
                     \cup ExistingLoop(tagContent, m.end)
             ELSE ExistingLoop(tagContent, from + 1)

\* parseExistingAttributesMultiLine(document, position, componentName): the
\* attribute names between the tag start and the first ">" after it
parseExistingAttributesMultiLine(text, offset, name) ==
    LET textBeforeCursor == Substring(text, 0, offset)
        tagStartOffset == LastTagStart(textBeforeCursor, offset - 1, name)
        tagEndOffset == FirstGt(text, tagStartOffset)
    IN  IF tagStartOffset = -1 THEN {}
        ELSE IF tagEndOffset = -1 THEN {}
        ELSE ExistingLoop(Substring(text, tagStartOffset, tagEndOffset + 1), 0)

\* `="${1:default}"`
ValueSnippet(defaultValue) ==
    << "=", "\"", "$", "{", "1", ":" >> \o defaultValue \o << "}", "\"" >>

NoItem == [made |-> FALSE]

AttributeItem(fullName, insertText, partial) ==
    [made |-> TRUE, label |-> fullName, insertText |-> insertText,
     filterText |-> fullName, hasRange |-> partial.defined,
     range |-> IF partial.defined THEN partial.range
               ELSE Range(Position(0, 0), Position(0, 0))]

\* Variant of createAttributeCompletionItem that compares without lowering
\* the case
createAttributeCompletionItemCaseSensitive(cVar, isDjangoExpression, partial) ==
    LET fullName == (IF isDjangoExpression THEN << ":" >> ELSE << >>) \o cVar.name
    IN  IF ~partial.defined
        THEN AttributeItem(fullName, fullName \o ValueSnippet(cVar.defaultValue), partial)
        ELSE IF StartsWith(fullName, 0, partial.alreadyTyped)
        THEN AttributeItem(fullName,
                           Substring(fullName, Len(partial.alreadyTyped), Len(fullName))
                               \o ValueSnippet(cVar.defaultValue),
                           partial)
        ELSE IF partial.alreadyTyped = << ":" >> /\ isDjangoExpression
        THEN AttributeItem(fullName, cVar.name \o ValueSnippet(cVar.defaultValue), partial)
        ELSE NoItem

createAttributeCompletionItem(cVar, isDjangoExpression, partial) ==
    LET fullName == (IF isDjangoExpression THEN << ":" >> ELSE << >>) \o cVar.name
    IN  IF ~partial.defined
        THEN AttributeItem(fullName, fullName \o ValueSnippet(cVar.defaultValue), partial)
        ELSE IF StartsWith(ToLowerCase(fullName), 0, ToLowerCase(partial.alreadyTyped))
        THEN AttributeItem(fullName,
                           Substring(fullName, Len(partial.alreadyTyped), Len(fullName))
                               \o ValueSnippet(cVar.defaultValue),
                           partial)
        ELSE IF partial.alreadyTyped = << ":" >> /\ isDjangoExpression
        THEN AttributeItem(fullName, cVar.name \o ValueSnippet(cVar.defaultValue), partial)
        ELSE NoItem

\* The for loop of provideCompletionItems over cVars from index k
RECURSIVE AttributeItems(_, _, _, _)
AttributeItems(cVars, k, existing, partial) ==
    IF k > Len(cVars) THEN << >>
    ELSE LET cVar == cVars[k]
             regularItem == createAttributeCompletionItem(cVar, FALSE, partial)
             expressionItem == createAttributeCompletionItem(cVar, TRUE, partial)
         IN  (IF cVar.name \notin existing /\ regularItem.made
              THEN << regularItem >> ELSE << >>)
             \o (IF (<< ":" >> \o cVar.name) \notin existing /\ expressionItem.made
                 THEN << expressionItem >> ELSE << >>)
             \o AttributeItems(cVars, k + 1, existing, partial)

\* CottonAttributeCompletionProvider.provideCompletionItems with the cursor at
\* an offset; every template file has the content `content`
provideAttributeCompletionItems(text, offset, content) ==
    LET pos == PositionAt(text, offset)
        tagContext == findCottonTagContext(text, offset)
        partial == getPartialParameterAtPosition(LineText(text, pos.line),
                                                 pos.character, pos.line)
        cVars == parseCVars(content, TRUE)
        existing == parseExistingAttributesMultiLine(text, offset, tagContext.componentName)
    IN  IF ~tagContext.defined THEN Undefined
        ELSE IF ~tagContext.isInsideTag THEN Undefined
        ELSE IF findComponentFile(tagContext.componentName) = NotFound THEN Undefined
        ELSE IF ~cVars.defined \/ Len(cVars.list) = 0 THEN Undefined
        ELSE Defined(AttributeItems(cVars.list, 1, existing, partial))

----------------------------------------------------------------------------
(* CottonAttributeCompletionProvider of the single-line revision *)

\* beforeCursor.match(/<c-([\w.-]+)(?:\s|>|$)/): the offset of the leftmost
\* match at or after k, or -1. The name is the maximal run: a shorter one is
\* followed by a name character.
RECURSIVE FirstTagMatch(_, _)
FirstTagMatch(beforeCursor, k) ==
    LET e == k + 3 + NameRun(beforeCursor, k + 3)
    IN  IF k + 3 >= Len(beforeCursor) THEN -1
        ELSE IF /\ TagOpeningAt(beforeCursor, k)
                /\ \/ e = Len(beforeCursor)
                   \/ CharAt(beforeCursor, e) \in Whitespace \cup {">"}
        THEN k
        ELSE FirstTagMatch(beforeCursor, k + 1)

\* beforeCursor.lastIndexOf(`<c-${componentName}`) searched from offset k down
RECURSIVE LastIndexOfTag(_, _, _)
LastIndexOfTag(beforeCursor, k, name) ==
    IF k < 0 THEN -1
    ELSE IF StartsWith(beforeCursor, k, << "<", "c", "-" >> \o name) THEN k
    ELSE LastIndexOfTag(beforeCursor, k - 1, name)

\* Lines 291-315 of provideCompletionItems: the component whose file is looked
\* up, or none when the provider returns before the lookup
SingleLineTag(text, offset) ==
    LET pos == PositionAt(text, offset)
        line == LineText(text, pos.line)
        char == pos.character
        beforeCursor == Substring(line, 0, char)
        tagMatch == FirstTagMatch(beforeCursor, 0)
        name == Substring(beforeCursor, tagMatch + 3,
                          tagMatch + 3 + NameRun(beforeCursor, tagMatch + 3))
        tagStartIndex == LastIndexOfTag(beforeCursor, Len(beforeCursor), name)
        afterTagName == Substring(beforeCursor, tagStartIndex + 3 + Len(name),
                                  Len(beforeCursor))
        restOfLine == Substring(line, char, Len(line))
        nextClosingTag == FirstGt(restOfLine, 0)
        beforeClosing == Substring(restOfLine, 0, nextClosingTag)
    IN  IF tagMatch = -1 THEN NoContext
        ELSE IF \A k \in DOMAIN afterTagName : afterTagName[k] \notin Whitespace
        THEN NoContext
        ELSE IF nextClosingTag # -1 /\ \E k \in DOMAIN beforeClosing : beforeClosing[k] = "<"
        THEN NoContext
        ELSE [defined |-> TRUE, componentName |-> name, beforeCursor |-> beforeCursor]

\* parseExistingAttributes(beforeCursor, componentName)
parseExistingAttributes(beforeCursor, name) ==
    LET tagStartIndex == LastIndexOfTag(beforeCursor, Len(beforeCursor), name)
    IN  IF tagStartIndex = -1 THEN {}
        ELSE ExistingLoop(Substring(beforeCursor, tagStartIndex, Len(beforeCursor)), 0)

\* provideCompletionItems of the single-line revision with the cursor at an
\* offset; every template file has the content `content`
provideAttributeCompletionItemsSingleLine(text, offset, content) ==
    LET tag == SingleLineTag(text, offset)
        cVars == parseCVars(content, TRUE)
    IN  IF ~tag.defined THEN Undefined
        ELSE IF findComponentFile(tag.componentName) = NotFound THEN Undefined
        ELSE IF ~cVars.defined \/ Len(cVars.list) = 0 THEN Undefined
        ELSE Defined(AttributeItems(cVars.list, 1,
                                    parseExistingAttributes(tag.beforeCursor,
                                                            tag.componentName),
                                    NoPartial))

----------------------------------------------------------------------------
(* CottonCompletionProvider.enhanceCompletionItem and the tag it edits *)

NoTag == [found |-> FALSE]

\* restOfTag.match(/^[^>]*\/>/) on documentText.substring(from)
LooksSelfClosing(text, from) ==
    LET g == FirstGt(text, from)
    IN  g # -1 /\ g - 1 >= from /\ CharAt(text, g - 1) = "/"

\* The forward scan of findCurrentOpeningTag: the offset of the first blank,
\* tab, line break or ">" at or after k, or the end of the text
RECURSIVE ScanNameEnd(_, _)
ScanNameEnd(text, k) ==
    IF k >= Len(text) \/ CharAt(text, k) \in {" ", ">", "\t", "\n"} THEN k
    ELSE ScanNameEnd(text, k + 1)

\* findCurrentOpeningTag(documentText, currentOffset). fullTagMatch of
\* /^<c-([\w.-]*?)(\s|>|$)/ has a non-empty second group when the run of name
\* characters is followed by whitespace or ">"; otherwise (end of text, or
\* any other character) the forward scan decides the name.
findCurrentOpeningTag(text, currentOffset) ==
    LET lastOpenBracket == LastIndexOfLt(Substring(text, 0, currentOffset), currentOffset - 1)
        n == NameRun(text, lastOpenBracket + 3)
        after == CharAt(text, lastOpenBracket + 3 + n)
        complete == after \in Whitespace \cup {">"}
        componentNameEnd == IF complete THEN lastOpenBracket + 3 + n
                            ELSE ScanNameEnd(text, lastOpenBracket + 3)
    IN  IF lastOpenBracket = -1 THEN NoTag
        ELSE IF ~StartsWith(Substring(text, 0, currentOffset), lastOpenBracket,
                            << "<", "c", "-" >>)
        THEN NoTag
        ELSE [found |-> TRUE,
              start |-> lastOpenBracket,
              end |-> componentNameEnd,
              currentComponentName |-> Substring(text, lastOpenBracket + 3, componentNameEnd),
              isSelfClosing |-> LooksSelfClosing(text, componentNameEnd)]

\* The offset of the first match of new RegExp(`</c-${name}>`, 'i') at or
\* after offset k, or -1
RECURSIVE FirstClosingTag(_, _, _)
FirstClosingTag(text, k, name) ==
    LET word == << "<", "/", "c", "-" >> \o name \o << ">" >>
    IN  IF k + Len(word) > Len(text) THEN -1
        ELSE IF ToLowerCase(SubSeq(text, k + 1, k + Len(word))) = ToLowerCase(word) THEN k
        ELSE FirstClosingTag(text, k + 1, name)

NoClosingTag == [found |-> FALSE]

findMatchingClosingTag(text, currentOffset, currentComponentName) ==
    LET start == FirstClosingTag(text, currentOffset, currentComponentName)
    IN  IF currentComponentName = << >> \/ start = -1 THEN NoClosingTag
        ELSE [found |-> TRUE, start |-> start,
              end |-> start + Len(currentComponentName) + 5]

\* `${componentName}${0}`
NameSnippet(name) == name \o << "$", "{", "0", "}" >>

\* `${componentName}>${0}</c-${componentName}>`
TagPairSnippet(name) ==
    name \o << ">", "$", "{", "0", "}", "<", "/", "c", "-" >> \o name \o << ">" >>

\* `</c-${componentName}>`
ClosingTagText(name) == << "<", "/", "c", "-" >> \o name \o << ">" >>

CompletionItem(insertText, hasRange, range, edits) ==
    [insertText |-> insertText, hasRange |-> hasRange, range |-> range,
     additionalTextEdits |-> edits]

NoRange == Range(Position(0, 0), Position(0, 0))

\* enhanceCompletionItem(item, document, position, partialName) for the item
\* with the given label: the fields it sets
enhanceCompletionItem(label, text, currentOffset) ==
    LET tag == findCurrentOpeningTag(text, currentOffset)
        replaceRange == Range(PositionAt(text, tag.start + 3), PositionAt(text, tag.end))
        closingTagInfo == findMatchingClosingTag(text, tag.end, tag.currentComponentName)
        closingBracketIndex == FirstGt(text, tag.end)
    IN  IF ~tag.found THEN CompletionItem(TagPairSnippet(label), FALSE, NoRange, << >>)
        ELSE IF tag.isSelfClosing
        THEN CompletionItem(NameSnippet(label), TRUE, replaceRange, << >>)
        ELSE IF closingTagInfo.found
        THEN CompletionItem(NameSnippet(label), TRUE, replaceRange,
                 << [edit |-> "replace",
                     range |-> Range(PositionAt(text, closingTagInfo.start),
                                     PositionAt(text, closingTagInfo.end)),
                     newText |-> ClosingTagText(label)] >>)
        ELSE IF closingBracketIndex # -1
        THEN CompletionItem(NameSnippet(label), TRUE, replaceRange,
                 << [edit |-> "insert",
                     range |-> Range(PositionAt(text, closingBracketIndex + 1),
                                     PositionAt(text, closingBracketIndex + 1)),
                     newText |-> ClosingTagText(label)] >>)
        ELSE CompletionItem(TagPairSnippet(label), TRUE, replaceRange, << >>)

----------------------------------------------------------------------------
(* The editor: a document, a cursor, the template files, and the providers
   the host calls *)

\* count="0"
AttrCountPlain ==
    Attr(<< "c", "o", "u", "n", "t", "=", "\"", "0", "\"" >>,
         << "c", "o", "u", "n", "t" >>, << "0" >>, FALSE)

\* label
AttrLabel ==
    Attr(<< "l", "a", "b", "e", "l" >>, << "l", "a", "b", "e", "l" >>, << >>, FALSE)

\* The component the user picks from the completion list
NewComponent == << "c", "a", "r", "d", ".", "t", "i", "t", "l", "e" >>

\* What the template file of every component declares
EditDeclarations ==
    { NoDeclaration,
      [present |-> TRUE, attrs |-> << AttrCountPlain, AttrLabel >>, close |-> << ">" >>] }

\* A document is open in the editor with the cursor somewhere in it
EditInit ==
    /\ componentName = << >>
    /\ templatePaths = << TemplatesCotton >>
    /\ workspaceOpen = TRUE
    /\ fsFiles \in SUBSET EditFiles
    /\ fsDenied = {}
    /\ callee = "none"
    /\ pc = "idle"
    /\ frame = IdleFrame
    /\ probeLog = << >>
    /\ result = NotFound
    /\ fsStable = TRUE
    /\ earlier = NoEarlier
    /\ kept = {}
    /\ languageId = "html"
    /\ docText \in EditTexts
    /\ runs = EmptyBag
    /\ stored = Unset
    /\ history = NoHistory
    /\ cursor \in 0..Len(docText)
    /\ reply = NoReply
    /\ CompletionIdle
    /\ declaration \in EditDeclarations
    /\ fileContent = IF declaration.present
                     THEN RenderDeclaration(declaration.attrs, declaration.close)
                     ELSE << "<", "p", ">", "x", "<", "/", "p", ">" >>

\* Go to Definition at the cursor
ProvideDefinition ==
    /\ reply' = [op |-> "provideDefinition",
                 located |-> findCottonComponentAtPosition(docText, PositionAt(docText, cursor)),
                 link |-> provideDefinition(docText, PositionAt(docText, cursor))]
    /\ UNCHANGED << fileContent, declaration, cursor, envVars, resolverVars, diagVars,
                    completionVars >>

\* Go to Definition at the cursor, earliest revision
ProvideDefinitionEarliest ==
    /\ reply' = [op |-> "provideDefinitionEarliest",
                 located |-> LocateEarliest(docText, PositionAt(docText, cursor)),
                 link |-> provideDefinitionEarliest(docText, PositionAt(docText, cursor))]
    /\ UNCHANGED << fileContent, declaration, cursor, envVars, resolverVars, diagVars,
                    completionVars >>

\* Attribute completion is requested at the cursor
ProvideAttributeCompletionItems ==
    /\ reply' =
          LET pos == PositionAt(docText, cursor)
              tagContext == findCottonTagContext(docText, cursor)
          IN  [op |-> "provideAttributeCompletionItems",
               tagContext |-> tagContext,
               partial |-> getPartialParameterAtPosition(LineText(docText, pos.line),
                                                         pos.character, pos.line),
               existingAttributes |->
                   IF tagContext.defined
                   THEN parseExistingAttributesMultiLine(docText, cursor,
                                                         tagContext.componentName)
                   ELSE {},
               items |-> provideAttributeCompletionItems(docText, cursor, fileContent)]
    /\ UNCHANGED << fileContent, declaration, cursor, envVars, resolverVars, diagVars,
                    completionVars >>

\* Attribute completion of the single-line revision is requested at the
\* cursor
ProvideAttributeCompletionItemsSingleLine ==
    /\ reply' = [op |-> "provideAttributeCompletionItemsSingleLine",
                 tag |-> SingleLineTag(docText, cursor),
                 items |-> provideAttributeCompletionItemsSingleLine(docText, cursor,
                                                                     fileContent)]
    /\ UNCHANGED << fileContent, declaration, cursor, envVars, resolverVars, diagVars,
                    completionVars >>

\* The component completion list is built at the cursor and the item of the
\* component card.title is enhanced
EnhanceCompletionItem ==
    /\ reply' = [op |-> "enhanceCompletionItem",
                 label |-> NewComponent,
                 openingTagInfo |-> findCurrentOpeningTag(docText, cursor),
                 item |-> enhanceCompletionItem(NewComponent, docText, cursor)]
    /\ UNCHANGED << fileContent, declaration, cursor, envVars, resolverVars, diagVars,
                    completionVars >>

EditNext ==
    \/ ProvideDefinition
    \/ ProvideDefinitionEarliest
    \/ ProvideAttributeCompletionItems
    \/ ProvideAttributeCompletionItemsSingleLine
    \/ EnhanceCompletionItem

EditSpec == EditInit /\ [][EditNext]_vars

----------------------------------------------------------------------------
(* The component completion list and the documentation of its items *)

\* A template file: its characters, and what its author wrote on the first
\* line (a comment and its text, or something else)
Template(chars, comment, interior) ==
    [chars |-> chars, comment |-> comment, interior |-> interior]

\* <!-- card -->\n<p>x</p>
TemplateCard ==
    Template(<< "<", "!", "-", "-", " ", "c", "a", "r", "d", " ", "-", "-", ">", "\n",
                "<", "p", ">", "x", "<", "/", "p", ">" >>,
             TRUE, << "c", "a", "r", "d" >>)

\* <!--  A b  -->\r\n<p>
TemplateTwoWords ==
    Template(<< "<", "!", "-", "-", " ", " ", "A", " ", "b", " ", " ", "-", "-", ">",
                "\r", "\n", "<", "p", ">" >>,
             TRUE, << "A", " ", "b" >>)

\* <p>x</p>
TemplatePlain ==
    Template(<< "<", "p", ">", "x", "<", "/", "p", ">" >>, FALSE, << >>)

\* <!-- a --> b\n
TemplateCommentThenText ==
    Template(<< "<", "!", "-", "-", " ", "a", " ", "-", "-", ">", " ", "b", "\n" >>,
             FALSE, << >>)

NoTemplate == Template(<< >>, FALSE, << >>)

FileEntry(name, content) ==
    [name |-> name, isDirectory |-> FALSE, content |-> content, children |-> << >>]

DirectoryEntry(name, children) ==
    [name |-> name, isDirectory |-> TRUE, content |-> NoTemplate, children |-> children]

AHtml == << "a", ".", "h", "t", "m", "l" >>

BCHtml == << "b", "_", "c", ".", "h", "t", "m", "l" >>

MixedHtml == << "a", "-", "b", "_", "c", ".", "h", "t", "m", "l" >>

NotesTxt == << "n", ".", "t", "x", "t" >>

UiDir == << "u", "i" >>

\* The entries a template directory may list
EntryPool ==
    { FileEntry(AHtml, TemplateCard),
      FileEntry(AHtml, TemplateTwoWords),
      FileEntry(AHtml, TemplatePlain),
      FileEntry(BCHtml, TemplateCard),
      FileEntry(BCHtml, TemplateCommentThenText),
      FileEntry(MixedHtml, TemplatePlain),
      FileEntry(NotesTxt, TemplateCard),
      DirectoryEntry(UiDir, << >>),
      DirectoryEntry(UiDir, << FileEntry(IndexHtml, TemplateCard) >>),
      DirectoryEntry(UiDir, << FileEntry(AHtml, TemplateTwoWords) >>),
      DirectoryEntry(UiDir, << FileEntry(AHtml, TemplateCard),
                               FileEntry(IndexHtml, TemplatePlain) >>) }

\* Directory listings: up to MaxEntries entries with different names
TemplateDirs ==
    { d \in UNION { [1..n -> EntryPool] : n \in 0..MaxEntries } :
        \A i, j \in DOMAIN d : i # j => d[i].name # d[j].name }

\* The documents completion is asked in: "<c-", "<c-U", "<c-a>" and
\* "x>\n<c-u"
CompletionTexts ==
    { << "<", "c", "-" >>,
      << "<", "c", "-", "U" >>,
      << "<", "c", "-", "a", ">" >>,
      << "x", ">", "\n", "<", "c", "-", "u" >> }

\* path.join(relativePath, entry.name) below the template directory
RelativePath(relativePath, name) ==
    IF relativePath = << >> THEN name ELSE relativePath \o << "/" >> \o name

\* The files below the template directory, by relative path
FilesOf(dir) ==
    { [path |-> dir[i].name, content |-> dir[i].content] :
        i \in { k \in DOMAIN dir : ~dir[k].isDirectory } }
    \cup
    UNION { { [path |-> RelativePath(dir[i].name, dir[i].children[j].name),
               content |-> dir[i].children[j].content] : j \in DOMAIN dir[i].children } :
            i \in { k \in DOMAIN dir : dir[k].isDirectory } }

Exists(dir, path) == \E f \in FilesOf(dir) : f.path = path

\* fs.promises.readFile(filePath, 'utf-8')
ReadFile(dir, path) == (CHOOSE f \in FilesOf(dir) : f.path = path).content.chars

EndsWith(s, word) ==
    Len(s) >= Len(word) /\ SubSeq(s, Len(s) - Len(word) + 1, Len(s)) = word

\* templateContent.split('\n')[0]
FirstLine(templateContent) ==
    LET breaks == { k \in DOMAIN templateContent : templateContent[k] = "\n" }
    IN  IF breaks = {} THEN templateContent
        ELSE SubSeq(templateContent, 1,
                    (CHOOSE k \in breaks : \A m \in breaks : k <= m) - 1)

NoDocumentation == [set |-> FALSE, text |-> << >>]

\* What addDocumentation leaves in item.documentation once its read resolved
addDocumentation(templateContent) ==
    LET firstLine == Trim(FirstLine(templateContent))
    IN  IF StartsWith(firstLine, 0, << "<", "!", "-", "-" >>)
           /\ EndsWith(firstLine, << "-", "-", ">" >>)
        THEN [set |-> TRUE, text |-> Trim(SubSeq(firstLine, 5, Len(firstLine) - 3))]
        ELSE NoDocumentation

\* .replace(/[\\/]/g, '.').replace(/_/g, '-')
DottedName(relativePath) ==
    [k \in DOMAIN relativePath |->
        IF relativePath[k] \in {"/", "\\"} THEN "."
        ELSE IF relativePath[k] = "_" THEN "-"
        ELSE relativePath[k]]

\* currentRelativePath.slice(0, -5)
WithoutExtension(relativePath) == SubSeq(relativePath, 1, Len(relativePath) - 5)

\* One step of collectTemplateFiles: an await (readdir, access) or the
\* creation of an item
Step(op, ok, label, filePath) ==
    [op |-> op, ok |-> ok, label |-> label, filePath |-> filePath]

ReaddirStep == Step("readdir", TRUE, << >>, << >>)

\* The branch for an entry that is a file
FileSteps(relativePath, entry) ==
    LET currentRelativePath == RelativePath(relativePath, entry.name)
    IN  IF EndsWith(entry.name, DotHtml)
        THEN << Step("createCompletionItem", TRUE,
                     DottedName(WithoutExtension(currentRelativePath)),
                     currentRelativePath) >>
        ELSE << >>

RECURSIVE ChildrenSteps(_, _, _)
ChildrenSteps(relativePath, children, k) ==
    IF k > Len(children) THEN << >>
    ELSE FileSteps(relativePath, children[k]) \o ChildrenSteps(relativePath, children, k + 1)

\* The branch for an entry that is a directory: the index.html probe (not in
\* the revision that awaits the read), then the recursive call
DirectorySteps(dir, entry, awaited) ==
    LET indexPath == RelativePath(entry.name, IndexHtml)
    IN  (IF awaited THEN << >>
         ELSE << Step("access", Exists(dir, indexPath), DottedName(entry.name), indexPath) >>)
        \o << ReaddirStep >>
        \o ChildrenSteps(entry.name, entry.children, 1)

RECURSIVE EntrySteps(_, _, _)
EntrySteps(dir, k, awaited) ==
    IF k > Len(dir) THEN << >>
    ELSE (IF dir[k].isDirectory THEN DirectorySteps(dir, dir[k], awaited)
          ELSE FileSteps(<< >>, dir[k]))
         \o EntrySteps(dir, k + 1, awaited)

\* collectTemplateFiles(fullTemplatePath, '', completionItems), in program
\* order
collectTemplateFiles(dir, awaited) == << ReaddirStep >> \o EntrySteps(dir, 1, awaited)

\* createCompletionItem(componentName, filePath) as it returns
createCompletionItem(label, filePath) ==
    [label |-> label, filePath |-> filePath, documentation |-> NoDocumentation,
     insertText |-> TagPairSnippet(label), hasRange |-> FALSE, range |-> NoRange,
     additionalTextEdits |-> << >>]

\* The steps from step k on that run without an await: the items they push
\* and the documentation reads they start
RECURSIVE RunSteps(_, _, _, _, _)
RunSteps(steps, k, items, started, awaited) ==
    IF k > Len(steps) \/ steps[k].op # "createCompletionItem" \/ awaited
    THEN [k |-> k, items |-> items, reads |-> started]
    ELSE RunSteps(steps, k + 1,
                  Append(items, createCompletionItem(steps[k].label, steps[k].filePath)),
                  started \cup {Len(items) + 1}, awaited)

\* Variant of CottonMatch whose pattern is /<c-(.*?)$/
CottonMatchAnyTag(linePrefix) ==
    LET starts == { k \in 0..Len(linePrefix) :
                      StartsWith(linePrefix, k, << "<", "c", "-" >>) }
    IN  IF starts = {} THEN [matched |-> FALSE, partialName |-> << >>]
        ELSE [matched |-> TRUE,
              partialName |-> Substring(linePrefix,
                                        (CHOOSE k \in starts : \A m \in starts : k <= m) + 3,
                                        Len(linePrefix))]

\* linePrefix.match(/<c-([^>]*?)$/): the leftmost "<c-" with no ">" after it
CottonMatch(linePrefix) ==
    LET starts == { k \in 0..Len(linePrefix) :
                      /\ StartsWith(linePrefix, k, << "<", "c", "-" >>)
                      /\ FirstGt(linePrefix, k + 3) = -1 }
    IN  IF starts = {} THEN [matched |-> FALSE, partialName |-> << >>]
        ELSE [matched |-> TRUE,
              partialName |-> Substring(linePrefix,
                                        (CHOOSE k \in starts : \A m \in starts : k <= m) + 3,
                                        Len(linePrefix))]

\* What provideCompletionItems resolves to: the items enhanced (not in the
\* revision that awaits the read) and filtered by the partial name
ReturnedItems(items, text, offset, awaited) ==
    LET pos == PositionAt(text, offset)
        partialName == CottonMatch(Substring(LineText(text, pos.line), 0, pos.character)).partialName
        Enhance(item) ==
            LET e == enhanceCompletionItem(item.label, text, offset)
            IN  [item EXCEPT !.insertText = e.insertText, !.hasRange = e.hasRange,
                             !.range = e.range,
                             !.additionalTextEdits = e.additionalTextEdits]
        enhancedItems == [k \in DOMAIN items |->
                            IF awaited THEN items[k] ELSE Enhance(items[k])]
        Keep(item) == StartsWith(ToLowerCase(item.label), 0, ToLowerCase(partialName))
    IN  IF partialName # << >> THEN SelectSeq(enhancedItems, Keep) ELSE enhancedItems

\* The completion list is asked for somewhere in a document
CompletionInit ==
    /\ componentName = << >>
    /\ templatePaths = << TemplatesCotton >>
    /\ workspaceOpen = TRUE
    /\ fsDenied = {}
    /\ callee = "none"
    /\ pc = "idle"
    /\ frame = IdleFrame
    /\ probeLog = << >>
    /\ result = NotFound
    /\ fsStable = TRUE
    /\ earlier = NoEarlier
    /\ kept = {}
    /\ languageId = "html"
    /\ docText \in CompletionTexts
    /\ runs = EmptyBag
    /\ stored = Unset
    /\ history = NoHistory
    /\ cursor \in 0..Len(docText)
    /\ reply = NoReply
    /\ declaration = [present |-> FALSE, attrs |-> << >>, close |-> << >>]
    /\ fileContent = << >>
    /\ templateDir \in TemplateDirs
    /\ fsFiles = { PathJoin(<< WorkspaceRoot, TemplatesCotton, f.path >>) :
                      f \in FilesOf(templateDir) }
    /\ awaitsRead \in BOOLEAN
    /\ scan = NotScanning
    /\ completionItems = << >>
    /\ reads = {}
    /\ handed = NotHanded

\* provideCompletionItems up to its first await, the readdir of the
\* template directory, or to its return of undefined
ProvideCompletionItems ==
    /\ scan.pc = "idle"
    /\ ~handed.returned
    /\ LET pos == PositionAt(docText, cursor)
           linePrefix == Substring(LineText(docText, pos.line), 0, pos.character)
       IN  IF CottonMatch(linePrefix).matched /\ workspaceOpen
           THEN /\ scan' = [pc |-> "awaiting", k |-> 1]
                /\ handed' = handed
           ELSE /\ scan' = [pc |-> "done", k |-> 0]
                /\ handed' = [returned |-> TRUE, defined |-> FALSE, list |-> << >>]
    /\ UNCHANGED << templateDir, awaitsRead, completionItems, reads,
                    envVars, resolverVars, diagVars, editVars >>

\* provideCompletionItems goes on after the await of step k resolved, with
\* the given items, up to its next await or to its return
Continue(k, items) ==
    LET steps == collectTemplateFiles(templateDir, awaitsRead)
        r == RunSteps(steps, k, items, reads, awaitsRead)
    IN  /\ completionItems' = r.items
        /\ reads' = r.reads
        /\ IF r.k > Len(steps)
           THEN /\ scan' = [pc |-> "done", k |-> r.k]
                /\ handed' = [returned |-> TRUE, defined |-> TRUE,
                              list |-> ReturnedItems(r.items, docText, cursor, awaitsRead)]
           ELSE /\ scan' = [pc |-> "awaiting", k |-> r.k]
                /\ handed' = handed
        /\ UNCHANGED << templateDir, awaitsRead, envVars, resolverVars, diagVars, editVars >>

AwaitedStep == collectTemplateFiles(templateDir, awaitsRead)[scan.k]

\* await fs.promises.readdir(...) resolves
ReaddirResolves ==
    /\ scan.pc = "awaiting"
    /\ AwaitedStep.op = "readdir"
    /\ Continue(scan.k + 1, completionItems)

\* await fs.promises.access(indexPath) resolves or rejects; after a
\* resolution the item of the directory is created and pushed
AccessResolves ==
    /\ scan.pc = "awaiting"
    /\ AwaitedStep.op = "access"
    /\ IF AwaitedStep.ok
       THEN LET steps == collectTemplateFiles(templateDir, awaitsRead)
                items == Append(completionItems,
                                createCompletionItem(AwaitedStep.label, AwaitedStep.filePath))
                r == RunSteps(steps, scan.k + 1, items, reads \cup {Len(items)}, awaitsRead)
            IN  /\ completionItems' = r.items
                /\ reads' = r.reads
                /\ scan' = [pc |-> "awaiting", k |-> r.k]
                /\ UNCHANGED << handed, templateDir, awaitsRead,
                                envVars, resolverVars, diagVars, editVars >>
       ELSE Continue(scan.k + 1, completionItems)

\* The revision that awaits the read: await fs.promises.readFile(...)
\* resolves, the documentation is set and the item is pushed
ReadFileResolves ==
    /\ scan.pc = "awaiting"
    /\ AwaitedStep.op = "createCompletionItem"
    /\ awaitsRead
    /\ Continue(scan.k + 1,
                Append(completionItems,
                       [createCompletionItem(AwaitedStep.label, AwaitedStep.filePath)
                            EXCEPT !.documentation =
                                addDocumentation(ReadFile(templateDir, AwaitedStep.filePath))]))

\* The read that an addDocumentation call nobody awaits started resolves,
\* while provideCompletionItems is suspended or after it returned
AddDocumentationResolves ==
    /\ scan.pc \in {"awaiting", "done"}
    /\ \E n \in reads :
          /\ completionItems' =
                [completionItems EXCEPT ![n].documentation =
                    addDocumentation(ReadFile(templateDir, completionItems[n].filePath))]
          /\ reads' = reads \ {n}
    /\ UNCHANGED << templateDir, awaitsRead, scan, handed,
                    envVars, resolverVars, diagVars, editVars >>

\* The user accepts an item of the list and asks for the definition of the
\* tag: CottonUtils.findComponentFile is called with the item's label
FindOfferedComponent ==
    /\ handed.returned
    /\ \E k \in DOMAIN handed.list :
          reply' = [op |-> "findComponentFile",
                    componentName |-> handed.list[k].label,
                    filePath |-> handed.list[k].filePath,
                    result |-> findComponentFile(handed.list[k].label)]
    /\ UNCHANGED << fileContent, declaration, cursor, envVars, resolverVars, diagVars,
                    completionVars >>

CompletionNext ==
    \/ ProvideCompletionItems
    \/ FindOfferedComponent
    \/ ReaddirResolves
    \/ AccessResolves
    \/ ReadFileResolves
    \/ AddDocumentationResolves

CompletionSpec == CompletionInit /\ [][CompletionNext]_vars

----------------------------------------------------------------------------
(* The resolver as the specification describes it *)

\* The three spellings of the name: original, hyphens to underscores,
\* underscores to hyphens, each with dots turned into separators
SpellingsOf(name) ==
    LET orig == [i \in 1..Len(name) |-> IF name[i] = "." THEN "/" ELSE name[i]]
    IN  << orig,
           [i \in 1..Len(orig) |-> IF orig[i] = "-" THEN "_" ELSE orig[i]],
           [i \in 1..Len(orig) |-> IF orig[i] = "_" THEN "-" ELSE orig[i]] >>

Spellings == SpellingsOf(componentName)

\* Candidates in the documented order: base, then spelling, then direct/index
ExpectedOrderOf(name) ==
    [k \in 1..(6 * Len(templatePaths)) |->
        LET b == ((k - 1) \div 6) + 1
            v == (((k - 1) % 6) \div 2) + 1
        IN  IF (k - 1) % 2 = 0
            THEN TemplatePath(templatePaths[b], SpellingsOf(name)[v])
            ELSE IndexPath(templatePaths[b], SpellingsOf(name)[v])]

ExpectedOrder == ExpectedOrderOf(componentName)

CandidateSet == { ExpectedOrder[k] : k \in DOMAIN ExpectedOrder }

Hits == { k \in DOMAIN ExpectedOrder : AccessOk(ExpectedOrder[k]) }

FirstAccessible ==
    IF Hits = {} THEN NotFound
    ELSE ExpectedOrder[CHOOSE k \in Hits : \A j \in Hits : k <= j]

OriginalIn(b) ==
    { TemplatePath(templatePaths[b], Spellings[1]),
      IndexPath(templatePaths[b], Spellings[1]) }

SwappedIn(b) ==
    { TemplatePath(templatePaths[b], Spellings[2]),
      IndexPath(templatePaths[b], Spellings[2]),
      TemplatePath(templatePaths[b], Spellings[3]),
      IndexPath(templatePaths[b], Spellings[3]) } \ OriginalIn(b)

OriginalPaths == UNION { OriginalIn(b) : b \in 1..Len(templatePaths) }

SwappedPaths == UNION { SwappedIn(b) : b \in 1..Len(templatePaths) }

Accessible(S) == \E p \in S : AccessOk(p)

\* A findComponentFile call with a workspace folder open has returned
Returned ==
    /\ callee = "findComponentFile"
    /\ workspaceOpen
    /\ pc = "done"

\* C1: findComponentFile probes the candidates in the order base directory,
\* then spelling (original, hyphens to underscores, underscores to hyphens),
\* then direct file before index file; every probe before the last one
\* failed, and the call returns the path of the first probe that succeeds, so
\* that with an unchanged file system it returns the first existing candidate
\* of that order.
C1_ProbeOrder ==
    (callee = "findComponentFile" /\ workspaceOpen) =>
        /\ Len(probeLog) <= Len(ExpectedOrder)
        /\ \A k \in DOMAIN probeLog :
              /\ probeLog[k].path = ExpectedOrder[k]
              /\ k < Len(probeLog) => ~probeLog[k].ok
        /\ (pc = "done" /\ result # NotFound) =>
              /\ Len(probeLog) > 0
              /\ probeLog[Len(probeLog)].ok
              /\ result = probeLog[Len(probeLog)].path
        /\ (pc = "done" /\ result = NotFound) =>
              /\ Len(probeLog) = Len(ExpectedOrder)
              /\ \A k \in DOMAIN probeLog : ~probeLog[k].ok
        /\ (pc = "done" /\ fsStable) => result = FirstAccessible

\* A swapped-spelling index file in the first base directory was returned
\* although the original direct file exists in the second one.
C1_Witness ==
    /\ Returned
    /\ fsStable
    /\ Len(templatePaths) = 2
    /\ AccessOk(TemplatePath(templatePaths[2], Spellings[1]))
    /\ \E v \in 2..3 :
          /\ Spellings[v] # Spellings[1]
          /\ result = IndexPath(templatePaths[1], Spellings[v])

\* C2 (as stated): whenever a file of the original spelling and a file of a
\* swapped spelling both exist, findComponentFile returns a file of the
\* original spelling.
C2_OriginalAlwaysWins ==
    (Returned /\ fsStable /\ Accessible(OriginalPaths) /\ Accessible(SwappedPaths))
        => result \in OriginalPaths

\* C2 (amended): if a file of the original spelling exists in a base
\* directory and no file of a swapped spelling exists in a base directory
\* listed before it, findComponentFile returns a file of the original
\* spelling.
C2_OriginalWinsFromItsBase ==
    (Returned /\ fsStable) =>
        \A b \in 1..Len(templatePaths) :
            ( /\ Accessible(OriginalIn(b))
              /\ \A e \in 1..(b - 1) : ~Accessible(SwappedIn(e)) )
            => result \in OriginalPaths

\* Both spellings exist in the same base directory and the original won.
C2_Witness ==
    /\ Returned
    /\ fsStable
    /\ \E b \in 1..Len(templatePaths) :
          /\ Accessible(OriginalIn(b))
          /\ Accessible(SwappedIn(b))
          /\ result \in OriginalIn(b)

\* C3: when the only template file is <base>/<variant>/index.html, every
\* resolver of the source (findComponentFile and the resolution loop of each
\* provideDefinition) returns that index path.
C3_IndexResolves ==
    (pc = "done" /\ workspaceOpen /\ fsStable /\ fsDenied = {}) =>
        \A b \in 1..Len(templatePaths) :
            fsFiles = { IndexPath(templatePaths[b], Spellings[1]) }
                => result = IndexPath(templatePaths[b], Spellings[1])

\* C4: with a workspace folder open, a returned path is a candidate whose
\* probe succeeded in this call; NotFound is returned only after every
\* candidate was probed and failed, and with an unchanged file system exactly
\* when no candidate exists.
C4_NotFoundExact ==
    Returned =>
        /\ result # NotFound =>
              /\ result \in CandidateSet
              /\ \E k \in DOMAIN probeLog :
                    probeLog[k] = [path |-> result, ok |-> TRUE]
        /\ result = NotFound =>
              \A p \in CandidateSet :
                  \E k \in DOMAIN probeLog :
                      probeLog[k] = [path |-> p, ok |-> FALSE]
        /\ fsStable => (result = NotFound <=> ~Accessible(CandidateSet))

\* NotFound after all twelve candidates of two base directories were probed
C4_Witness ==
    /\ Returned
    /\ fsStable
    /\ result = NotFound
    /\ Len(templatePaths) = 2
    /\ Len(probeLog) = Len(ExpectedOrder)

\* C5: a rejected probe (file absent, or present but access() rejects) never
\* ends the call with an error; unless it was the last candidate the call
\* goes on probing, and a later accessible candidate is returned.
C5_FailedProbeSkipped ==
    (callee = "findComponentFile" /\ workspaceOpen) =>
        /\ pc # "threw"
        /\ ( /\ Len(probeLog) > 0
             /\ ~probeLog[Len(probeLog)].ok
             /\ Len(probeLog) < Len(ExpectedOrder) ) => pc = "probe"
        /\ (pc = "done" /\ fsStable /\ Accessible(CandidateSet)) =>
              /\ result # NotFound
              /\ AccessOk(result)

\* A probe of an existing file was rejected and a later candidate returned
C5_Witness ==
    /\ Returned
    /\ fsStable
    /\ result # NotFound
    /\ \E k \in DOMAIN probeLog :
          /\ probeLog[k].path \in fsDenied
          /\ ~probeLog[k].ok
          /\ k < Len(probeLog)

\* C6: within one findComponentFile request no candidate path is probed twice
C6_ProbedAtMostOnce ==
    callee = "findComponentFile" =>
        \A i, j \in DOMAIN probeLog :
            i # j => probeLog[i].path # probeLog[j].path

----------------------------------------------------------------------------
(* The diagnostics as the specification describes them *)

DocOf(text) == CHOOSE d \in DocSources : Flatten(d) = text

\* Some candidate file of the name is there and a workspace folder is open
Resolvable(name) ==
    /\ workspaceOpen
    /\ \E k \in DOMAIN ExpectedOrderOf(name) : AccessOk(ExpectedOrderOf(name)[k])

\* Offset of the first character of token i of a document
RECURSIVE TokenOffset(_, _)
TokenOffset(doc, i) ==
    IF i = 1 THEN 0 ELSE TokenOffset(doc, i - 1) + Len(doc[i - 1].chars)

\* The opening component tags of a document that need an entry, in order
UnresolvedTags(doc) ==
    SelectSeq([i \in DOMAIN doc |-> [name |-> doc[i].name, kind |-> doc[i].kind,
                                     offset |-> TokenOffset(doc, i)]],
              LAMBDA t : t.kind = "open" /\ ~Resolvable(t.name))

\* Offset of a position in a text
OffsetAt(text, pos) ==
    LET breaks == { k \in 1..Len(text) : text[k] = "\n" }
        starts == { 0 } \cup breaks
        lineStart == CHOOSE k \in starts :
                        Cardinality({ m \in breaks : m <= k }) = pos.line
    IN  lineStart + pos.character

\* The characters a range covers
Covered(text, range) ==
    SubSeq(text, OffsetAt(text, range.start) + 1, OffsetAt(text, range.end))

StoredDiagnostics == { stored.diagnostics[i] : i \in DOMAIN stored.diagnostics }

\* C7: the stored entries are, in document order, exactly the opening
\* component tags whose name does not resolve: one entry each, none for a tag
\* that resolves, none for a closing tag, none for vars, slot and component.
C7_OneEntryPerUnresolvedTag ==
    stored.set =>
        [i \in DOMAIN stored.diagnostics |-> stored.diagnostics[i].message.componentName]
            = [i \in DOMAIN UnresolvedTags(DocOf(stored.sourceText)) |->
                  UnresolvedTags(DocOf(stored.sourceText))[i].name]

\* A document with reserved tags, closing tags, a resolving tag and one
\* unresolved tag got exactly the entry of the unresolved tag.
C7_Witness ==
    /\ stored.set
    /\ stored.sourceText = Flatten(<< TText, TVars, TOpenAB, TText, TSelfA, TCloseAB >>)
    /\ Resolvable(NameA)
    /\ Len(stored.diagnostics) = 1
    /\ stored.diagnostics[1].message.componentName = NameAB

C10_LastRequestWins ==
    (BagCardinality(runs) = 0 /\ stored.set) =>
        /\ stored.sourceText = docText
        /\ [i \in DOMAIN stored.diagnostics |->
                stored.diagnostics[i].message.componentName]
              = [i \in DOMAIN UnresolvedTags(DocOf(docText)) |->
                    UnresolvedTags(DocOf(docText))[i].name]

\* The stored set holds an entry although the document now has no
\* component tag at all.
C10_StaleEntryShown ==
    /\ BagCardinality(runs) = 0
    /\ stored.set
    /\ docText = Flatten(<< TText >>)
    /\ Len(stored.diagnostics) > 0

----------------------------------------------------------------------------
(* The declaration parser as the specification describes it *)

\* The parameter an attribute token declares
DeclaredRecord(attr) ==
    [name |-> attr.name, defaultValue |-> attr.value, isDjangoExpression |-> attr.expr]

DeclaredRecords(attrs) == [i \in DOMAIN attrs |-> DeclaredRecord(attrs[i])]

\* parseCVars has read the template file and handed its result back
Parsed == reply.op = "parseCVars" /\ reply.readOk

\* C11: for a declaration tag with attributes, the result is one record per
\* attribute token, in source order, with the token's name, quoted value (or
\* the empty string) and colon flag, and no further record.
C11_OneRecordPerToken ==
    (Parsed /\ declaration.present /\ declaration.attrs # << >>) =>
        reply.cVars = Defined(DeclaredRecords(declaration.attrs))

\* The declaration of the README parses to its three parameters.
C11_ReadmeDeclaration ==
    (Parsed /\ declaration.present
        /\ declaration.attrs = << AttrTitle, AttrCount, AttrDisabled >>) =>
        reply.cVars = Defined(DeclaredRecords(declaration.attrs))

\* C12: without a declaration tag the result is undefined; with a declaration
\* tag that declares nothing it is the empty list.
C12_EmptyOutcomes ==
    Parsed =>
        /\ ~declaration.present => reply.cVars = Undefined
        /\ (declaration.present /\ declaration.attrs = << >>) =>
              reply.cVars = Defined(<< >>)

----------------------------------------------------------------------------
(* The tag locator and Go to Definition as the specification describes them *)

EditSourceOf(text) == CHOOSE d \in EditSources : Flatten(d) = text

\* The pieces of the document that carry a component name
NamePieces == { i \in DOMAIN EditSourceOf(docText) :
                  EditSourceOf(docText)[i].kind \in {"start", "close"} }

PieceAt(i) == EditSourceOf(docText)[i]

\* Offsets of the first character of the name of piece i and right after its
\* last character
NameFrom(i) ==
    TokenOffset(EditSourceOf(docText), i) + (IF PieceAt(i).kind = "close" THEN 4 ELSE 3)

NameTo(i) == NameFrom(i) + Len(PieceAt(i).name)

CursorOnName(i) == cursor >= NameFrom(i) /\ cursor <= NameTo(i)

\* The reply of a tag locator names piece i and ranges over exactly its name
LocatedExactly(i) ==
    /\ reply.located.found
    /\ reply.located.componentName = PieceAt(i).name
    /\ OffsetOf(docText, reply.located.range.start) = NameFrom(i)
    /\ OffsetOf(docText, reply.located.range.end) = NameTo(i)
    /\ Covered(docText, reply.located.range) = PieceAt(i).name

\* C13: with the cursor inside or at either edge of the name of a component
\* tag, the tag locator returns the tag's full name and a range that covers
\* exactly the name, without the prefix.
C13_RangeCoversExactlyTheName ==
    reply.op \in {"provideDefinition", "provideDefinitionEarliest"} =>
        \A i \in NamePieces : CursorOnName(i) => LocatedExactly(i)

\* The statement for findCottonComponentAtPosition alone
C13_CurrentLocatorIsExact ==
    reply.op = "provideDefinition" =>
        \A i \in NamePieces : CursorOnName(i) => LocatedExactly(i)

\* The cursor is right after the last character of forms.input in the
\* opening tag, and findCottonComponentAtPosition returned the name and its
\* range
C13_CurrentLocatorWitness ==
    /\ reply.op = "provideDefinition"
    /\ docText = Flatten(<< PStartForms, PSpace, PPlaceholder, PGt, PContent, PCloseForms >>)
    /\ cursor = 14
    /\ reply.located.found
    /\ reply.located.componentName = PStartForms.name
    /\ reply.located.range = Range(Position(0, 3), Position(0, 14))

\* The earliest locator found the name of the opening tag <c-forms.input but
\* its range starts at the "c" of the prefix
C13_EarliestIncludesPrefix ==
    /\ reply.op = "provideDefinitionEarliest"
    /\ docText = Flatten(<< PStartForms, PSpace, PPlaceholder, PGt, PContent, PCloseForms >>)
    /\ cursor = 5
    /\ reply.located.found
    /\ reply.located.componentName = PStartForms.name
    /\ reply.located.range = Range(Position(0, 1), Position(0, 14))

\* The opening tag of piece j has its ">" on the line of its name
ClosesOnItsLine(j) ==
    LET pos == PositionAt(docText, NameFrom(j))
    IN  FirstGt(LineText(docText, pos.line), pos.character) # -1

\* What the provider that made the reply returns with the cursor at offset c
SameProviderAt(c) ==
    IF reply.op = "provideDefinition"
    THEN provideDefinition(docText, PositionAt(docText, c))
    ELSE provideDefinitionEarliest(docText, PositionAt(docText, c))

RangeLength(range) == OffsetOf(docText, range.end) - OffsetOf(docText, range.start)

----------------------------------------------------------------------------
(* Attribute completion as the specification describes it *)

StartPieces == { i \in NamePieces : PieceAt(i).kind = "start" }

PieceOffset(i) == TokenOffset(EditSourceOf(docText), i)

\* The pieces of the opening tag that starts with piece j, after its name:
\* up to its ">" or "/>", or to the end of the document when it has none
TagPieces(j) ==
    { k \in DOMAIN EditSourceOf(docText) :
        /\ k > j
        /\ \A m \in (j + 1)..(k - 1) : PieceAt(m).kind \in {"space", "attr", "colon"} }

TagEnds(j) == { k \in TagPieces(j) : PieceAt(k).kind = "end" }

IsTerminated(j) == TagEnds(j) # {}

\* Offset of the ">" that terminates the tag of piece j
TerminatorOffset(j) ==
    LET e == CHOOSE k \in TagEnds(j) : TRUE
    IN  PieceOffset(e) + Len(PieceAt(e).chars) - 1

\* The cursor is after the name of the tag of piece j and not after its ">"
InAttributeRegion(j) ==
    /\ cursor > NameTo(j)
    /\ IF IsTerminated(j) THEN cursor <= TerminatorOffset(j)
       ELSE \A k \in DOMAIN EditSourceOf(docText) : k > j => k \in TagPieces(j)

\* The attribute names the tag of piece j carries, with their colon
PresentForms(j) == { PieceAt(k).name : k \in { m \in TagPieces(j) : PieceAt(m).kind = "attr" } }

\* Both forms of every parameter the template declares
DeclaredForms ==
    UNION { { declaration.attrs[k].name, << ":" >> \o declaration.attrs[k].name } :
            k \in DOMAIN declaration.attrs }

Completed == reply.op = "provideAttributeCompletionItems" /\ reply.items.defined

OfferedForms == { reply.items.list[k].label : k \in DOMAIN reply.items.list }

\* C15: no suggestion is a form the tag being edited already carries, at any
\* cursor position of the attribute region, on one line or several, with or
\* without a terminating ">"; with count present and nothing typed, :count
\* is still offered.
C15_PresentFormNotOffered ==
    Completed =>
        \A j \in StartPieces :
            InAttributeRegion(j) =>
                /\ OfferedForms \cap PresentForms(j) = {}
                /\ ( /\ AttrCountPlain.name \in PresentForms(j)
                     /\ (<< ":" >> \o AttrCountPlain.name) \notin PresentForms(j)
                     /\ ~reply.partial.defined )
                      => (<< ":" >> \o AttrCountPlain.name) \in OfferedForms

\* The statement for tags that have their terminating ">"
C15_TerminatedTagPresentFormNotOffered ==
    Completed =>
        \A j \in StartPieces :
            (InAttributeRegion(j) /\ IsTerminated(j)) =>
                OfferedForms \cap PresentForms(j) = {}

\* count="5" is in a tag without ">" and the bare count is offered
C15_UnterminatedTagOffersPresent ==
    /\ Completed
    /\ \E j \in StartPieces :
          /\ InAttributeRegion(j)
          /\ ~IsTerminated(j)
          /\ AttrCountPlain.name \in PresentForms(j) \cap OfferedForms

\* The cursor is right after a lone ":" in the attribute region of a tag
AfterLoneColon ==
    \E j \in StartPieces :
        \E k \in TagPieces(j) :
            /\ PieceAt(k).kind = "colon"
            /\ cursor = PieceOffset(k) + 1
            /\ InAttributeRegion(j)

\* The component of the tag resolves and its template declares label
LabelDeclared ==
    /\ declaration.present
    /\ AttrLabel.name \in DeclaredForms
    /\ AccessOk(TemplatePath(TemplatesCotton, NameA))

\* C16: after a lone ":" in the attribute region of a tag whose component
\* declares label, the suggestions include label.
C16_LoneColonOffersLabel ==
    (reply.op = "provideAttributeCompletionItems" /\ AfterLoneColon /\ LabelDeclared) =>
        /\ reply.items.defined
        /\ AttrLabel.name \in OfferedForms

\* A lone ":" on the last line of a tag without ">" got label and :label
C16_Witness ==
    /\ reply.op = "provideAttributeCompletionItems"
    /\ AfterLoneColon
    /\ LabelDeclared
    /\ cursor = Len(docText)
    /\ { AttrLabel.name, << ":" >> \o AttrLabel.name } \subseteq OfferedForms

\* The last opening tag whose first `lead` characters lie before the cursor
\* exists, and it has no ">" after its start or the cursor is not after the
\* first such ">"
InsideLastOpeningTag(lead) ==
    LET before == { j \in StartPieces : PieceOffset(j) + lead <= cursor }
        last == CHOOSE j \in before : \A k \in before : k <= j
        bracket == FirstGt(docText, PieceOffset(last))
    IN  /\ before # {}
        /\ bracket = -1 \/ cursor <= bracket

\* C17 (as stated): the context is defined exactly when an opening tag starts
\* before the cursor and the last such tag has no ">" or the cursor is at or
\* before its first ">"; a defined context always has isInsideTag = TRUE.
C17_InsideIffTagStartsBeforeCursor ==
    reply.op = "provideAttributeCompletionItems" =>
        /\ reply.tagContext.defined <=> InsideLastOpeningTag(1)
        /\ reply.tagContext.defined => reply.tagContext.isInsideTag

\* C17 (amended): the opening tags that count are those whose "<c-" and
\* first name character lie before the cursor.
C17_InsideIffTagOpeningBeforeCursor ==
    reply.op = "provideAttributeCompletionItems" =>
        /\ reply.tagContext.defined <=> InsideLastOpeningTag(4)
        /\ reply.tagContext.defined => reply.tagContext.isInsideTag

\* The cursor is right before the ">" of a tag that started on an earlier
\* line, and the context is that tag
C17_Witness ==
    /\ reply.op = "provideAttributeCompletionItems"
    /\ reply.tagContext.defined
    /\ reply.tagContext.isInsideTag
    /\ cursor = FirstGt(docText, reply.tagContext.tagStartOffset)
    /\ PositionAt(docText, cursor).line > PositionAt(docText, reply.tagContext.tagStartOffset).line

\* The run of characters between the last blank, tab or line break before
\* the cursor, or the start of the line, and the cursor; the token typed is
\* this run without the other whitespace characters at its ends
RECURSIVE TypedBeforeCursor(_)
TypedBeforeCursor(c) ==
    IF c <= 0 \/ CharAt(docText, c - 1) \in {" ", "\t", "\n"} THEN << >>
    ELSE Append(TypedBeforeCursor(c - 1), CharAt(docText, c - 1))

\* The run is the beginning of an attribute name, with or without colon
IsPartialToken(t) ==
    /\ t # << >>
    /\ \A k \in DOMAIN t : t[k] \in NameChars \cup {":"}
    /\ \A k \in 2..Len(t) : t[k] # ":"
    /\ IF t[1] = ":" THEN Len(t) >= 2 /\ t[2] \in Letters ELSE t[1] \in Letters

HasPrefix(form, t) ==
    /\ Len(t) <= Len(form)
    /\ ToLowerCase(SubSeq(form, 1, Len(t))) = ToLowerCase(t)

\* The opening tag the cursor is in
EditedTag ==
    CHOOSE j \in StartPieces :
        /\ PieceOffset(j) + 4 <= cursor
        /\ \A k \in StartPieces : PieceOffset(k) + 4 <= cursor => k <= j

\* C18: with a partial token at the cursor every suggestion starts with it,
\* whatever the case of the letters, and every declared form that the tag
\* does not carry and that starts with it is suggested; without a partial
\* token both forms of every declared parameter the tag does not carry are
\* suggested.
C18_PrefixFilter ==
    Completed =>
        LET t == Trim(TypedBeforeCursor(cursor))
        IN  IF IsPartialToken(t)
            THEN /\ \A f \in OfferedForms : HasPrefix(f, t)
                 /\ \A f \in DeclaredForms \ PresentForms(EditedTag) :
                       HasPrefix(f, t) => f \in OfferedForms
            ELSE (DeclaredForms \ PresentForms(EditedTag)) \subseteq OfferedForms

\* With LA typed, label is the one suggestion
C18_Witness ==
    /\ Completed
    /\ TypedBeforeCursor(cursor) = << "L", "A" >>
    /\ OfferedForms = { AttrLabel.name }

\* With nothing typed after count="5", everything but count is suggested
C18_NothingTyped ==
    /\ Completed
    /\ TypedBeforeCursor(cursor) = << >>
    /\ IsTerminated(EditedTag)
    /\ OfferedForms = DeclaredForms \ { AttrCountPlain.name }

----------------------------------------------------------------------------
(* Renaming a component from the completion list as the specification describes it *)

Enhanced == reply.op = "enhanceCompletionItem"

\* The opening tag of piece j ends with "/>"
IsSelfClosing(j) ==
    /\ IsTerminated(j)
    /\ LET e == CHOOSE k \in TagEnds(j) : TRUE
       IN  PieceAt(e).chars = << "/", ">" >>

\* The cursor is in the opening tag of piece j: at or after the first
\* character of its name and not after its ">"
CursorInTag(j) == cursor >= NameFrom(j) /\ cursor <= TerminatorOffset(j)

\* The item replaces exactly the name of piece j by the new name and edits
\* nothing else
ReplacesNameOnly(j) ==
    /\ reply.item.hasRange
    /\ OffsetOf(docText, reply.item.range.start) = NameFrom(j)
    /\ OffsetOf(docText, reply.item.range.end) = NameTo(j)
    /\ Covered(docText, reply.item.range) = PieceAt(j).name
    /\ reply.item.insertText = reply.label \o << "$", "{", "0", "}" >>
    /\ reply.item.additionalTextEdits = << >>

\* C20: when the tag being edited is self-closing, with or without
\* whitespace before its "/>", the enhanced item replaces exactly the old
\* name by the new name and carries no additional edit.
C20_SelfClosingReplacesNameOnly ==
    Enhanced =>
        \A j \in StartPieces :
            (IsSelfClosing(j) /\ CursorInTag(j)) => ReplacesNameOnly(j)

\* The same for the self-closing tags whose name is followed by whitespace
C20_SpacedSelfClosingReplacesNameOnly ==
    Enhanced =>
        \A j \in StartPieces :
            (IsSelfClosing(j) /\ CursorInTag(j) /\ (j + 1) \notin TagEnds(j))
                => ReplacesNameOnly(j)

\* A self-closing tag without whitespace, <c-a/>, got a closing tag
C20_SlashTakenForName ==
    /\ Enhanced
    /\ \E j \in StartPieces :
          /\ IsSelfClosing(j) /\ CursorInTag(j) /\ (j + 1) \in TagEnds(j)
          /\ reply.item.additionalTextEdits # << >>
          /\ OffsetOf(docText, reply.item.range.end) = NameTo(j) + 1

C20_SpacedWitness ==
    /\ Enhanced
    /\ \E j \in StartPieces :
          /\ IsSelfClosing(j) /\ CursorInTag(j) /\ (j + 1) \notin TagEnds(j)
          /\ ReplacesNameOnly(j)

----------------------------------------------------------------------------
(* The documentation of the completion items as the specification describes it *)

\* The template file an item was created for
TemplateOf(item) ==
    (CHOOSE f \in FilesOf(templateDir) : f.path = item.filePath).content

\* The item carries the text of the comment on its template's first line
Documented(item) ==
    item.documentation = [set |-> TRUE, text |-> TemplateOf(item).interior]

\* C19: in the list handed to the host, every item whose template starts
\* with a comment line carries the trimmed text of that comment.
C19_DocumentedWhenHanded ==
    handed.returned =>
        \A k \in DOMAIN handed.list :
            TemplateOf(handed.list[k]).comment => Documented(handed.list[k])

\* The same when collectTemplateFiles awaits the read before it pushes the
\* item
C19_DocumentedWhenReadAwaited ==
    (handed.returned /\ awaitsRead) =>
        \A k \in DOMAIN handed.list :
            TemplateOf(handed.list[k]).comment => Documented(handed.list[k])

\* Once every read has resolved, every item of the array is documented
C19_DocumentedAfterReads ==
    (scan.pc = "done" /\ reads = {}) =>
        \A k \in DOMAIN completionItems :
            /\ TemplateOf(completionItems[k]).comment => Documented(completionItems[k])
            /\ ~TemplateOf(completionItems[k]).comment =>
                   completionItems[k].documentation = NoDocumentation

\* A list was handed over while the read of one of its items was in flight
C19_HandedBeforeRead ==
    /\ handed.returned
    /\ ~awaitsRead
    /\ \E n \in reads :
          /\ TemplateOf(completionItems[n]).comment
          /\ \E k \in DOMAIN handed.list :
                /\ handed.list[k].label = completionItems[n].label
                /\ handed.list[k].documentation = NoDocumentation

\* A list with a documented item was handed over by the revision that
\* awaits the read
C19_AwaitedWitness ==
    /\ handed.returned
    /\ awaitsRead
    /\ \E k \in DOMAIN handed.list :
          /\ TemplateOf(handed.list[k]).comment
          /\ handed.list[k].documentation = [set |-> TRUE, text |-> << "A", " ", "b" >>]

----------------------------------------------------------------------------
(* The component completion list as the specification describes it *)

\* The offsets of the cursor's line at which a "<c-" starts before the
\* cursor with no ">" between it and the cursor
OpenTagStarts ==
    { k \in 0..(cursor - 3) :
        /\ SubSeq(docText, k + 1, k + 3) = << "<", "c", "-" >>
        /\ \A m \in (k + 1)..cursor : docText[m] \notin {">", "\n"} }

\* What is typed between that "<c-" and the cursor
TypedName ==
    LET k == CHOOSE k \in OpenTagStarts : \A m \in OpenTagStarts : k <= m
    IN  SubSeq(docText, k + 4, cursor)

\* The name under which a template file is used as a component
LabelOfFile(path) ==
    CASE path = AHtml -> << "a" >>
      [] path = BCHtml -> << "b", "-", "c" >>
      [] path = MixedHtml -> << "a", "-", "b", "-", "c" >>
      [] path = UiDir \o << "/" >> \o AHtml -> << "u", "i", ".", "a" >>
      [] path = UiDir \o << "/" >> \o IndexHtml -> << "u", "i", ".", "i", "n", "d", "e", "x" >>
      [] OTHER -> << >>

\* The components found in the template directory: one for every .html
\* file, and one for every directory that holds an index.html
ComponentsFound ==
    ({ LabelOfFile(f.path) : f \in FilesOf(templateDir) } \ { << >> })
    \cup { UiDir : f \in { g \in FilesOf(templateDir) : g.path = UiDir \o << "/" >> \o IndexHtml } }

HandedLabels == { handed.list[k].label : k \in DOMAIN handed.list }

\* C21: a list is returned only when the line before the cursor ends in a
\* "<c-" that no ">" terminates; every name in it starts with what is typed
\* after "<c-", whatever the case; with nothing typed the list holds every
\* component found, once (the revision that awaits the documentation read
\* does not look for index.html and is left out of this last part).
C21_ListOnlyInTagStartAndFiltered ==
    (handed.returned /\ handed.defined) =>
        /\ OpenTagStarts # {}
        /\ \A k \in DOMAIN handed.list : HasPrefix(handed.list[k].label, TypedName)
        /\ (TypedName = << >> /\ ~awaitsRead) =>
              /\ HandedLabels = ComponentsFound
              /\ Len(handed.list) = Cardinality(ComponentsFound)

\* With U typed, the components ui and ui.index were returned and b-c,
\* which is in the directory as well, was not
C21_Witness ==
    /\ handed.returned /\ handed.defined /\ ~awaitsRead
    /\ TypedName = << "U" >>
    /\ HandedLabels = { UiDir, << "u", "i", ".", "i", "n", "d", "e", "x" >> }
    /\ << "b", "-", "c" >> \in ComponentsFound

\* With nothing typed a list of three components was returned
C21_EverythingWitness ==
    /\ handed.returned /\ handed.defined /\ ~awaitsRead
    /\ TypedName = << >>
    /\ Cardinality(HandedLabels) = 3

\* Outside a tag start undefined was returned
C21_UndefinedWitness ==
    /\ handed.returned /\ ~handed.defined
    /\ OpenTagStarts = {}
    /\ cursor = Len(docText)

----------------------------------------------------------------------------
(* The resolver keeps nothing between calls *)

Resolved == pc = "done" /\ callee = "findComponentFile"

Configured == workspaceOpen /\ Len(templatePaths) > 0

\* C22: a call that ran while some candidate file stayed in place returns a
\* path, and a call during which the file system did not change and held no
\* candidate returns NotFound, whatever the call before it returned.
C22_NoResultKeptAcrossCalls ==
    (Resolved /\ Configured) =>
        /\ (kept \cap FsUniverse # {}) => result \in FsUniverse
        /\ (fsStable /\ fsFiles \cap FsUniverse = {}) => result = NotFound

\* A call found the file that was created after the call before it had
\* returned NotFound
C22_FoundAfterNotFound ==
    /\ Resolved /\ Configured
    /\ earlier.called /\ ~earlier.found
    /\ kept # {}
    /\ result \in kept

\* A call returned NotFound after the file that the call before it had
\* returned was removed
C22_NotFoundAfterFound ==
    /\ Resolved /\ Configured
    /\ earlier.called /\ earlier.found
    /\ fsStable /\ fsFiles = {}
    /\ result = NotFound

----------------------------------------------------------------------------
(* The spellings of a component name *)

ToUnderscores(s) == [i \in DOMAIN s |-> IF s[i] = "-" THEN "_" ELSE s[i]]

ToHyphens(s) == [i \in DOMAIN s |-> IF s[i] = "_" THEN "-" ELSE s[i]]

Slashed(s) == [i \in DOMAIN s |-> IF s[i] = "." THEN "/" ELSE s[i]]

\* C23: the second and third spelling of the name are the whole name, dots
\* turned into separators, with every hyphen turned into an underscore and
\* every underscore into a hyphen; turning them once more changes nothing.
C23_VariationsIdempotent ==
    LET v == getPathVariations(componentName)
    IN  /\ v[1] = Slashed(componentName)
        /\ v[2] = ToUnderscores(Slashed(componentName))
        /\ v[3] = ToHyphens(Slashed(componentName))
        /\ ToUnderscores(v[2]) = v[2]
        /\ ToHyphens(v[3]) = v[3]
        /\ ToUnderscores(ToUnderscores(v[1])) = ToUnderscores(v[1])
        /\ ToHyphens(ToHyphens(v[1])) = ToHyphens(v[1])

\* The call for a-b.c-d probes the spelling with underscores in both parts
C23_Witness ==
    /\ componentName = << "a", "-", "b", ".", "c", "-", "d" >>
    /\ pc = "probe"
    /\ frame.vi = 2
    /\ FramePath(frame) =
          TemplatePath(templatePaths[frame.bi], << "a", "_", "b", "/", "c", "_", "d" >>)

----------------------------------------------------------------------------
(* The offered names and the resolver *)

OfferedLookedUp == reply.op = "findComponentFile"

\* C24: the resolver finds a file for every name the completion list offers.
C24_OfferedNameResolves ==
    OfferedLookedUp => reply.result # NotFound

\* The same for the names made from files and folders that do not mix
\* hyphens and underscores: the resolver returns the file the item was made
\* for
C24_UnmixedNameResolves ==
    (OfferedLookedUp /\ reply.filePath # MixedHtml) =>
        reply.result = PathJoin(<< WorkspaceRoot, TemplatesCotton, reply.filePath >>)

\* The name a-b-c, offered for the file a-b_c.html, was not found
C24_MixedNameNotFound ==
    /\ OfferedLookedUp
    /\ reply.filePath = MixedHtml
    /\ reply.componentName = << "a", "-", "b", "-", "c" >>
    /\ reply.result = NotFound
    /\ PathJoin(<< WorkspaceRoot, TemplatesCotton, MixedHtml >>) \in fsFiles

----------------------------------------------------------------------------
(* Accepting an attribute suggestion *)

\* The text a snippet leaves in the document: its placeholder ${1:value}
\* becomes value
RECURSIVE SnippetText(_, _)
SnippetText(snippet, inPlaceholder) ==
    IF snippet = << >> THEN << >>
    ELSE IF ~inPlaceholder /\ Len(snippet) >= 4
            /\ SubSeq(snippet, 1, 4) = << "$", "{", "1", ":" >>
    THEN SnippetText(SubSeq(snippet, 5, Len(snippet)), TRUE)
    ELSE IF inPlaceholder /\ snippet[1] = "}" THEN SnippetText(Tail(snippet), FALSE)
    ELSE << snippet[1] >> \o SnippetText(Tail(snippet), inPlaceholder)

\* The document after the editor replaced the range of the item by its text
Accepted(item) ==
    SubSeq(docText, 1, OffsetAt(docText, item.range.start))
    \o SnippetText(item.insertText, FALSE)
    \o SubSeq(docText, OffsetAt(docText, item.range.end) + 1, Len(docText))

\* The default the template declares for a suggested form
DeclaredDefault(form) ==
    LET name == IF form[1] = ":" THEN Tail(form) ELSE form
    IN  (CHOOSE k \in { declaration.attrs[i] : i \in DOMAIN declaration.attrs } :
            k.name = name).value

\* name="default" for a suggested form
WrittenOut(form) == form \o << "=", "\"" >> \o DeclaredDefault(form) \o << "\"" >>

\* Accepting the item leaves the text before the token and the text after
\* the cursor as they were, with the written-out attribute between them
AcceptedInFull(item) ==
    Accepted(item) =
        SubSeq(docText, 1, OffsetAt(docText, item.range.start))
        \o WrittenOut(item.label)
        \o SubSeq(docText, cursor + 1, Len(docText))

\* C25: for every suggestion that carries the range of a partial token,
\* replacing that range by the suggestion's text leaves the full attribute
\* name, with its colon if it has one, followed by ="default" where the
\* token was.
C25_AcceptKeepsFullName ==
    Completed =>
        \A k \in DOMAIN reply.items.list :
            reply.items.list[k].hasRange => AcceptedInFull(reply.items.list[k])

\* With la typed, accepting label left bel="" in the tag
C25_PrefixLost ==
    /\ Completed
    /\ docText = Flatten(<< PStartA, PIndent, PLa, PGt, PLine, PCloseA >>)
    /\ \E k \in DOMAIN reply.items.list :
          /\ reply.items.list[k].label = AttrLabel.name
          /\ reply.items.list[k].hasRange
          /\ Covered(docText, reply.items.list[k].range) = << "l", "a" >>
          /\ Accepted(reply.items.list[k]) =
                Flatten(<< PStartA, PIndent >>) \o << "b", "e", "l", "=", "\"", "\"" >>
                \o Flatten(<< PGt, PLine, PCloseA >>)

----------------------------------------------------------------------------
(* The partial token of getPartialParameterAtPosition as the specification
   describes it *)

PartialAsked == reply.op = "provideAttributeCompletionItems" /\ reply.partial.defined

\* The characters of the document that the range of the partial token covers
PartialCovered == Covered(docText, reply.partial.range)

\* The range of the partial token is on the cursor's line and ends at the
\* cursor
RangeEndsAtCursor ==
    /\ reply.partial.range.end = PositionAt(docText, cursor)
    /\ reply.partial.range.start.line = reply.partial.range.end.line
    /\ reply.partial.range.start.character < reply.partial.range.end.character

\* No whitespace, "=", quote or ">", at least one letter or underscore, and
\* not the lone colon
WellFormedToken(t) ==
    /\ \A k \in DOMAIN t : t[k] \notin Whitespace \cup {"=", "\"", "'", ">"}
    /\ \E k \in DOMAIN t : t[k] \in Letters
    /\ t # << ":" >>

\* C26 (as stated): every partial token is the text that ends at the cursor,
\* it contains no whitespace, "=", quote or ">", it contains a letter or an
\* underscore, and it is never the lone ":".
C26_TokenEndsAtCursor ==
    PartialAsked =>
        /\ RangeEndsAtCursor
        /\ reply.partial.alreadyTyped = PartialCovered
        /\ WellFormedToken(reply.partial.alreadyTyped)

\* C26 (amended): the range of every partial token ends at the cursor and
\* covers no blank, tab, line break, "=", quote or ">"; the token is the
\* covered text without the whitespace at its ends, it contains no
\* whitespace, "=", quote or ">", it contains a letter or an underscore, and
\* it is never the lone ":".
C26_TrimmedTokenEndsAtCursor ==
    PartialAsked =>
        /\ RangeEndsAtCursor
        /\ \A k \in DOMAIN PartialCovered :
              PartialCovered[k] \notin {" ", "\t", "\n", "=", "\"", "'", ">"}
        /\ reply.partial.alreadyTyped = Trim(PartialCovered)
        /\ WellFormedToken(reply.partial.alreadyTyped)

\* With a form feed between la and the cursor the token is la and its range
\* is one character longer
C26_Witness ==
    /\ PartialAsked
    /\ reply.tagContext.defined
    /\ reply.partial.alreadyTyped = << "l", "a" >>
    /\ PartialCovered = << "l", "a", "\f" >>
    /\ CharAt(docText, cursor - 1) = "\f"

\* The token :count of a tag, ending at the cursor
C26_ColonTokenWitness ==
    /\ PartialAsked
    /\ reply.tagContext.defined
    /\ reply.partial.alreadyTyped = PartialCovered
    /\ reply.partial.alreadyTyped[1] = ":"
    /\ Len(reply.partial.alreadyTyped) > 1

----------------------------------------------------------------------------
(* The closing tag that is renamed with the opening tag *)

\* The opening tags of the name of piece j between pieces j and k that need a
\* closing tag, and the closing tags of that name between them
OpenedBetween(j, k) ==
    { m \in StartPieces : m > j /\ m < k /\ PieceAt(m).name = PieceAt(j).name
                          /\ ~IsSelfClosing(m) }

ClosedBetween(j, k) ==
    { m \in NamePieces : m > j /\ m < k /\ PieceAt(m).kind = "close"
                         /\ PieceAt(m).name = PieceAt(j).name }

\* The closing tags that can close the opening tag of piece j: as many tags
\* of its name are opened as are closed between the two
ClosersOf(j) ==
    { k \in NamePieces :
        /\ k > j
        /\ PieceAt(k).kind = "close"
        /\ PieceAt(k).name = PieceAt(j).name
        /\ Cardinality(OpenedBetween(j, k)) = Cardinality(ClosedBetween(j, k)) }

\* The closing tag that structurally closes the opening tag of piece j
ClosingTagOf(j) == CHOOSE k \in ClosersOf(j) : \A m \in ClosersOf(j) : k <= m

\* The opening tag that enhanceCompletionItem found around the cursor
RenamedTag == CHOOSE j \in StartPieces : PieceOffset(j) = reply.openingTagInfo.start

\* The item renames a closing tag along with the opening tag
RenamesClosingTag ==
    /\ Enhanced
    /\ reply.openingTagInfo.found
    /\ \E j \in StartPieces : PieceOffset(j) = reply.openingTagInfo.start
    /\ Len(reply.item.additionalTextEdits) = 1
    /\ reply.item.additionalTextEdits[1].edit = "replace"

\* The closing tag that the item renames is piece k
RenamedClosingTagIs(k) ==
    /\ OffsetOf(docText, reply.item.additionalTextEdits[1].range.start) = PieceOffset(k)
    /\ OffsetOf(docText, reply.item.additionalTextEdits[1].range.end)
           = PieceOffset(k) + Len(PieceAt(k).chars)

\* C27: the closing tag that is renamed with an opening tag is the one that
\* structurally closes it, also with tags of the same name nested in it and
\* when it has no closing tag of its own.
C27_RenamesStructuralClosingTag ==
    RenamesClosingTag =>
        /\ ClosersOf(RenamedTag) # {}
        /\ RenamedClosingTagIs(ClosingTagOf(RenamedTag))

\* The same for an opening tag that is followed by no other opening tag of
\* its name
C27_LastTagRenamesItsClosingTag ==
    (RenamesClosingTag /\ \A m \in StartPieces : m <= RenamedTag) =>
        /\ ClosersOf(RenamedTag) # {}
        /\ RenamedClosingTagIs(ClosingTagOf(RenamedTag))

\* In <c-a><c-a>x</c-a></c-a> the outer tag is renamed together with the
\* closing tag of the inner one
C27_InnerClosingTagRenamed ==
    /\ RenamesClosingTag
    /\ docText = Flatten(<< PStartA, PGt, PStartA, PGt, PLine, PCloseA, PCloseA >>)
    /\ RenamedTag = 1
    /\ ClosingTagOf(1) = 7
    /\ RenamedClosingTagIs(6)

\* In <c-a>x <c-a>content</c-a> the first tag, which is not closed, is renamed
\* together with the closing tag of the second
C27_SiblingClosingTagRenamed ==
    /\ RenamesClosingTag
    /\ docText = Flatten(<< PStartA, PGt, PLine, PStartA, PGt, PContent, PCloseA >>)
    /\ RenamedTag = 1
    /\ ClosersOf(1) = {}
    /\ RenamedClosingTagIs(7)

\* The one tag of <c-a la>x </c-a> is renamed together with its closing tag
C27_OwnClosingTagRenamed ==
    /\ RenamesClosingTag
    /\ \A m \in StartPieces : m = RenamedTag
    /\ RenamedClosingTagIs(ClosingTagOf(RenamedTag))

----------------------------------------------------------------------------
(* The stored set after runs that do not overlap *)

\* The names of the stored entries, in order
StoredNames ==
    [i \in DOMAIN stored.diagnostics |-> stored.diagnostics[i].message.componentName]

\* The names of the opening tags of a text that do not resolve, in order
UnresolvedNames(text) ==
    [i \in DOMAIN UnresolvedTags(DocOf(text)) |-> UnresolvedTags(DocOf(text))[i].name]

\* Every run so far ended before the next one started, and none is suspended
RunsInSequence == ~history.overlap /\ BagCardinality(runs) = 0

\* C28: after runs that did not overlap the stored set holds exactly the
\* unresolved tags of the text the last run read, which is the text of the
\* document: nothing of an earlier run is left, and it is empty when no tag
\* of the text is unresolved.
C28_LastRunReplacesSet ==
    (RunsInSequence /\ stored.set) =>
        /\ stored.sourceText = docText
        /\ StoredNames = UnresolvedNames(docText)
        /\ UnresolvedNames(docText) = << >> => stored.diagnostics = << >>

\* A run replaced a set of one entry by the empty set, after the one
\* unresolved tag was taken out of the document
C28_Witness ==
    /\ RunsInSequence
    /\ stored.set
    /\ history.replaced = 1
    /\ stored.diagnostics = << >>
    /\ stored.sourceText = docText
    /\ UnresolvedNames(docText) = << >>

\* A run that was suspended at a probe replaced an empty set by a set of one
\* entry
C28_EntryAfterEmptySet ==
    /\ RunsInSequence
    /\ stored.set
    /\ workspaceOpen
    /\ history.replaced = 0
    /\ Len(stored.diagnostics) = 1

----------------------------------------------------------------------------
(* The text that findCottonComponentAtPosition takes for a component tag *)

\* The offset of the "c-" that the located name follows
MatchedPrefixAt == OffsetOf(docText, reply.located.range.start) - 2

\* The "c-" at offset k follows "<" or "</"
FollowsTagOpening(k) ==
    \/ CharAt(docText, k - 1) = "<"
    \/ CharAt(docText, k - 1) = "/" /\ CharAt(docText, k - 2) = "<"

\* C29: whenever findCottonComponentAtPosition returns a component, the
\* matched "c-" follows "<" or "</" on the line; with the cursor on other
\* text there is no result and no definition link.
C29_OnlyRealTagsLocated ==
    reply.op = "provideDefinition" =>
        /\ reply.located.found => FollowsTagOpening(MatchedPrefixAt)
        /\ reply.link # NoDefinition => FollowsTagOpening(MatchedPrefixAt)

\* With the cursor on c-a in <p class="c-a"> the component a is located and,
\* its template file being there, Go to Definition leads to it
C29_ClassNameLinked ==
    /\ reply.op = "provideDefinition"
    /\ docText = Flatten(<< PClassCA, PContent >>)
    /\ cursor = 11
    /\ reply.located.found
    /\ reply.located.componentName = NameA
    /\ ~FollowsTagOpening(MatchedPrefixAt)
    /\ CharAt(docText, MatchedPrefixAt - 1) = "\""
    /\ reply.link # NoDefinition
    /\ reply.link.targetUri = TemplatePath(TemplatesCotton, NameA)

----------------------------------------------------------------------------
(* Where attribute completion looks a component up *)

AttributesAsked ==
    reply.op \in {"provideAttributeCompletionItems",
                  "provideAttributeCompletionItemsSingleLine"}

\* The provider got as far as findComponentFile, and the name it passed
LookedUp ==
    IF reply.op = "provideAttributeCompletionItems"
    THEN reply.tagContext.defined /\ reply.tagContext.isInsideTag
    ELSE reply.tag.defined

LookedUpName ==
    IF reply.op = "provideAttributeCompletionItems"
    THEN reply.tagContext.componentName
    ELSE reply.tag.componentName

\* The opening tags that start before the cursor, and the last of them
TagsBeforeCursor == { j \in StartPieces : PieceOffset(j) < cursor }

TagAtCursor == CHOOSE j \in TagsBeforeCursor : \A k \in TagsBeforeCursor : k <= j

\* The cursor is after the name of the opening tag of piece j and a
\* whitespace character follows the name
PastTheName(j) ==
    /\ cursor > NameTo(j)
    /\ CharAt(docText, NameTo(j)) \in Whitespace

\* The cursor is inside the name of the opening tag of piece j or right after
\* its last character
InOrAtTheName(j) == cursor >= NameFrom(j) /\ cursor <= NameTo(j)

\* The statement of C30 for the provider that answered
LookupOnlyPastTheName ==
    /\ LookedUp =>
          /\ TagsBeforeCursor # {}
          /\ LookedUpName = PieceAt(TagAtCursor).name
          /\ PastTheName(TagAtCursor)
    /\ \A j \in StartPieces : InOrAtTheName(j) => ~reply.items.defined

\* C30: in both revisions a component is looked up, and attributes are
\* suggested, only with the cursor past the name of the tag and whitespace
\* after the name; the name looked up is the whole name of the tag, and
\* with the cursor inside or right after the name nothing is suggested.
C30_LookupOnlyPastTheName == AttributesAsked => LookupOnlyPastTheName

\* The single-line revision looks up the whole name of an opening tag that
\* has whitespace after its name and ends before the cursor, never a name cut
\* off at the cursor
C30_SingleLineLooksWholeNameUp ==
    (reply.op = "provideAttributeCompletionItemsSingleLine" /\ LookedUp) =>
        \E j \in StartPieces : LookedUpName = PieceAt(j).name /\ PastTheName(j)

\* With the cursor in the name of the second tag of <c-a la><c-forms.input
\* the single-line revision looks up the component of the first tag
C30_SingleLineOtherTagLookedUp ==
    /\ reply.op = "provideAttributeCompletionItemsSingleLine"
    /\ docText = Flatten(<< PStartA, PSpace, PLa, PGt, PStartForms >>)
    /\ cursor = 14
    /\ InOrAtTheName(TagAtCursor)
    /\ LookedUp
    /\ LookedUpName = NameA

\* With the cursor after <c-forms of <c-forms.input the multi-line revision
\* looks the component forms up
C30_PrefixLookedUp ==
    /\ reply.op = "provideAttributeCompletionItems"
    /\ docText = Flatten(<< PStartForms, PSpace, PPlaceholder, PGt, PContent, PCloseForms >>)
    /\ cursor = 8
    /\ LookedUp
    /\ LookedUpName = << "f", "o", "r", "m", "s" >>

\* With the cursor right after the name in <c-a/> the multi-line revision
\* suggests the attributes of a
C30_SuggestedRightAfterName ==
    /\ reply.op = "provideAttributeCompletionItems"
    /\ docText = Flatten(<< PStartA, PSlashGt, PStartA, PSpace, PSlashGt >>)
    /\ cursor = 4
    /\ LookedUpName = NameA
    /\ reply.items.defined
    /\ Len(reply.items.list) > 0

\* The single-line revision suggests attributes after the blank of <c-a />
C30_SingleLineSuggests ==
    /\ reply.op = "provideAttributeCompletionItemsSingleLine"
    /\ LookedUp
    /\ PastTheName(TagAtCursor)
    /\ reply.items.defined
    /\ Len(reply.items.list) > 0

====
